---- MODULE Spec2Model ----
(***************************************************************************)
(* A model of diffwatch's change-detection pipeline:                       *)
(*   internal/watcher/debouncer.go   Debouncer (per-key delayed callback)  *)
(*   internal/watcher (FileWatcher)  watch loop, recursive subscription,   *)
(*                                   bounded output channels, Close        *)
(*   internal/state/manager.go       Manager (snapshot store)              *)
(*   internal/diff (Engine)          Compute, isBinary                     *)
(*   internal/ui (Model)             coalescing of events, size gating     *)
(* Every goroutine is a process with a program counter; a mutex is a       *)
(* variable naming its holder.  These specifications share the variables:  *)
(*   SpecDeb    a stand-alone Debouncer with concurrent callers            *)
(*   SpecWatch  a running FileWatcher: notifications, debounce, Close      *)
(*   SpecWatchLive  SpecWatch with its goroutines scheduled fairly         *)
(*   SpecFull   the same watcher with full channels and no consumer        *)
(*   SpecWalk   recursive subscription over a changing directory tree      *)
(*   SpecFlat   a non-recursive watcher over a changing directory tree     *)
(*   SpecErr    subtree walks meeting errors, error channel empty or full  *)
(*   SpecNew    New from its first line on, failing or not, then running   *)
(*   SpecNewLive  SpecNew with the watch goroutine scheduled fairly        *)
(*   SpecStore  the snapshot store with concurrent callers                 *)
(*   SpecDiff   Compute applied to pairs of file states                    *)
(*   SpecBin    isBinary applied to contents around the sample size        *)
(*   SpecOp     opToString applied to operation codes                      *)
(*   SpecUI     the UI model: events, coalescing tick, handleFileEvent     *)
(*   SpecUILive SpecUI with time passing and the tick delivered            *)
(***************************************************************************)
EXTENDS Integers, Sequences, FiniteSets, TLC

VARIABLES
    \* ---- Debouncer (debouncer.go:9-14)
    timers,      \* d.timers: a map from key to the index of its timer in tm
    tm,          \* every time.Timer created so far: [key, cb, st]
    dmu,         \* d.mu: Free or the goroutine holding it
    stopChan,    \* d.stopChan: number of close(d.stopChan) executed
    late,        \* keys for which an Add came after the previous timer expired
    \* ---- callers of a stand-alone Debouncer
    apc,         \* caller -> [pc, key, cb] (position inside Add)
    spc,         \* the goroutine calling Stop: [pc, seen], its position and
                 \* the number of timers created before its Stop
    nAdds,       \* number of Add calls issued so far
    invoked,     \* log of callback invocations
    \* ---- the goroutine calling New (part_002:59-107)
    npc,         \* [pc, err]: its position, and the failure New returned
    \* ---- FileWatcher (part_002:46-56)
    recursive,   \* fw.recursive
    watchPath,   \* fw.watchPath: the root, a path (sequence of names)
    notifs,      \* raw fsnotify events not yet received by the watch loop
    osErrs,      \* raw fsnotify errors not yet received by the watch loop
    nNotifs,     \* number of raw notifications produced so far
    wpc,         \* the watch goroutine: [pc, ev]
    walks,       \* the goroutines running addRecursive: [root, pc, todo, ...]
    fmuW,        \* fw.mu: Free or the goroutine holding the write lock
    fmuR,        \* fw.mu: the goroutines holding a read lock
    closed,      \* fw.closed
    events,      \* fw.events: [buf, closes]
    errors,      \* fw.errors: [buf, closes]
    osClosed,    \* number of fw.watcher.Close() executed
    cpc,         \* closer -> position inside Close
    closeRets,   \* what Close returned: <<"first" or "later" call, value>>
    sentOnClosed,\* a send was executed on a closed channel (a Go panic)
    dropped,     \* the values dropped by a full channel, latest first
    delivered,   \* log of the events placed on fw.events
    \* ---- the directory tree and the subscriptions
    fsDirs,      \* the directories that exist, as paths (sequences of names)
    denied,      \* the directories that cannot be read (EACCES)
    osWatches,   \* the paths fsnotify holds a watch for
    watchedDirs, \* fw.watchedDirs: the keys of the sync.Map
    nFsOps,      \* number of changes made to the tree so far
    dynCreated,  \* directories created under a watched parent, still existing
    \* ---- Manager (manager.go:17-20) and the files it reads
    states,      \* m.states: a map from path to the stored snapshot
    smu,         \* m.mu: Free or the goroutine holding it
    upc,         \* caller -> [pc, path, old, had] (position inside Update)
    nStoreOps,   \* number of Update, Remove and Clear calls made so far
    nAlloc,      \* number of FileState values allocated for new snapshots
    slog,        \* log of the calls of the concurrent callers, in the order
                 \* they returned
    tracked,     \* paths updated with success and not dropped since
    \* ---- Engine.Compute and isBinary (part_005): inputs and results
    dOld,        \* oldState given to Compute
    dNew,        \* newState given to Compute
    dRes,        \* <<>> or the one Result that Compute returned
    bIn,         \* content given to isBinary
    bOut,        \* <<>> or the one value that isBinary returned
    opIn,        \* fsnotify.Op given to opToString
    opOut,       \* <<>> or the one string that opToString returned
    \* ---- the UI Model (part_003:17-30) and the bubbletea runtime
    pending,     \* m.pendingEvents: path -> [event, age], age being the time
                 \* since the timestamp of the entry, up to ProcessThreshold
    curDiff,     \* m.currentDiff: <<>> (nil) or the one Result
    uerr,        \* m.err: <<>> (nil) or the text of the error
    uevents,     \* [log, since]: the lines of m.events, and the time since
                 \* m.lastRenderTime, up to Throttle
    tick,        \* [pc, todo, until]: the position of Update inside the tick
                 \* case, the map entries its range has still to visit, and
                 \* the time until the scheduled tick is due
    urecv,       \* [n, last]: the number of events received, and per path
                 \* the ordinal of the event received last
    ulog         \* log of the handleFileEvent calls: the ordinal of the
                 \* event, the age of its entry, and the ordinal of the
                 \* event received last for its path

debVars == <<timers, tm, dmu, stopChan, late>>
procVars == <<apc, spc, nAdds, invoked>>
newVars == <<npc>>
osVars == <<notifs, osErrs, nNotifs>>
lockVars == <<fmuW, fmuR>>
closeVars == <<closed, osClosed, cpc, closeRets>>
chanVars == <<events, errors, sentOnClosed, dropped, delivered>>
subVars == <<osWatches, watchedDirs>>
fsVars == <<fsDirs, denied, nFsOps, dynCreated>>
watchVars == <<recursive, watchPath, osVars, wpc, walks, lockVars, closeVars, chanVars,
               subVars, fsVars>>

\* What the actions of one component leave alone in the others.
storeVars == <<states, smu, upc, nStoreOps, nAlloc, slog, tracked>>
diffVars == <<dOld, dNew, dRes, bIn, bOut, opIn, opOut>>
uiVars == <<pending, curDiff, uerr, uevents, tick, urecv, ulog>>
notDeb == <<newVars, watchVars, storeVars, diffVars, uiVars>>
notWatch == <<newVars, procVars, storeVars, diffVars, uiVars>>
notStore == <<newVars, debVars, procVars, watchVars, diffVars, uiVars>>
notDiff == <<newVars, debVars, procVars, watchVars, storeVars, uiVars>>
notUi == <<newVars, debVars, procVars, watchVars>>

vars == <<newVars, debVars, procVars, watchVars, storeVars, diffVars, uiVars>>

-----------------------------------------------------------------------------
\* Bounds of the model.
MaxAdds == 2        \* Add calls issued to the stand-alone Debouncer
MaxNotifs == 2      \* raw OS notifications produced for a running watcher
MaxFsOps == 3       \* changes made to the directory tree
MaxStoreOps == 4    \* Update, Remove and Clear calls made to the store
MaxLines == 3       \* lines of a text given to Compute
MaxPre == 2         \* bytes before the filler of a content given to isBinary
MaxFill == 7        \* filler bytes of a short content given to isBinary
OpBits == 6          \* operation codes of that many bits are enumerated

Keys == {"k1", "k2"}
Callers == {1, 2}
Free == <<"free", 0>>     \* a mutex nobody holds

-----------------------------------------------------------------------------
(***************************************************************************)
(* Debouncer                                                               *)
(***************************************************************************)

\* time.Timer.Stop as called at debouncer.go:33 and :54: it prevents the
\* timer from firing only if it has not expired yet; once the timer has
\* expired its function already runs in its own goroutine and Stop changes
\* nothing.
TimerStop(t) == IF t.st = "armed" THEN [t EXCEPT !.st = "stopped"] ELSE t

\* make(map[string]*time.Timer), make(map[string]*FileState)
EmptyMap == [k \in {} |-> 0]

\* state.New, and a store nobody uses.
NewManager ==
    /\ states = EmptyMap
    /\ smu = Free
    /\ nStoreOps = 0
    /\ nAlloc = 0
    /\ slog = <<>>
    /\ tracked = {}
OpOff == opIn = 0 /\ opOut = <<>>
DiffOff ==
    /\ dOld = <<>> /\ dNew = <<>> /\ dRes = <<>> /\ bIn = <<>> /\ bOut = <<>>
    /\ OpOff
StoreOff == NewManager /\ upc = <<>>
\* No UI model.
UiOff ==
    /\ pending = EmptyMap /\ curDiff = <<>> /\ uerr = <<>>
    /\ uevents = [log |-> <<>>, since |-> 0]
    /\ tick = [pc |-> "off", todo |-> {}, until |-> 0]
    /\ urecv = [n |-> 0, last |-> EmptyMap]
    /\ ulog = <<>>
RestOff == StoreOff /\ DiffOff /\ UiOff

\* NewDebouncer.
NewDebouncer ==
    /\ timers = EmptyMap
    /\ tm = <<>>
    /\ dmu = Free
    /\ stopChan = 0
    /\ late = {}

\* The timer and the callback of the most recent completed Add for a key
\* (0 when there was none).
LastTm(key) ==
    LET S == {i \in 1..Len(tm) : tm[i].key = key}
    IN  IF S = {} THEN 0 ELSE CHOOSE i \in S : \A j \in S : j <= i
LastCb(key) == IF LastTm(key) = 0 THEN <<>> ELSE <<tm[LastTm(key)].cb>>

\* The previous Add for this key is still inside its delay window.
InWindow(key) == LastTm(key) = 0 \/ tm[LastTm(key)].st = "armed"

\* d.mu.Lock() by goroutine g at the head of Add; the history variable late
\* records a call that came outside the delay window of the previous one.
AddLock(g, key) ==
    /\ dmu = Free
    /\ dmu' = g
    /\ late' = IF InWindow(key) THEN late ELSE late \cup {key}
    /\ UNCHANGED <<timers, tm, stopChan>>

\* The body of Add between Lock and the deferred Unlock.
Add(key, callback) ==
    LET cancelled == IF key \in DOMAIN timers
                     THEN [tm EXCEPT ![timers[key]] = TimerStop(tm[timers[key]])]
                     ELSE tm
    IN  /\ tm' = Append(cancelled, [key |-> key, cb |-> callback, st |-> "armed"])
        /\ timers' = [k \in DOMAIN timers \cup {key} |->
                        IF k = key THEN Len(tm) + 1 ELSE timers[k]]
        /\ dmu' = Free
        /\ UNCHANGED <<stopChan, late>>

\* Stop: Lock, close(d.stopChan), stop every timer of the map, replace the
\* map, Unlock.
Stop ==
    /\ dmu = Free
    /\ stopChan' = stopChan + 1
    /\ tm' = [i \in 1..Len(tm) |->
                IF \E k \in DOMAIN timers : timers[k] = i
                THEN TimerStop(tm[i]) ELSE tm[i]]
    /\ timers' = EmptyMap
    /\ UNCHANGED <<dmu, late>>

\* The runtime expires an armed timer and starts its function in a new
\* goroutine, which now stands before d.mu.Lock() (line 38).
TimerExpire(i) ==
    /\ tm[i].st = "armed"
    /\ tm' = [tm EXCEPT ![i].st = "fired"]
    /\ UNCHANGED <<timers, dmu, stopChan, late>>

\* Line 38 of the timer function.
HandlerLock(i) ==
    /\ tm[i].st = "fired"
    /\ dmu = Free
    /\ dmu' = <<"timer", i>>
    /\ tm' = [tm EXCEPT ![i].st = "locked"]
    /\ UNCHANGED <<timers, stopChan, late>>

\* The timer function with its Unlock moved behind callback().
HandlerDelete_KeepsLock(i) ==
    /\ tm[i].st = "locked"
    /\ timers' = [k \in DOMAIN timers \ {tm[i].key} |-> timers[k]]
    /\ tm' = [tm EXCEPT ![i].st = "cb"]
    /\ UNCHANGED <<dmu, stopChan, late>>

\* Lines 39-40 of the timer function: delete(d.timers, key); Unlock.
HandlerDelete(i) ==
    /\ tm[i].st = "locked"
    /\ timers' = [k \in DOMAIN timers \ {tm[i].key} |-> timers[k]]
    /\ dmu' = Free
    /\ tm' = [tm EXCEPT ![i].st = "cb"]
    /\ UNCHANGED <<stopChan, late>>

-----------------------------------------------------------------------------
(***************************************************************************)
(* A stand-alone Debouncer driven by concurrent callers of Add and one     *)
(* caller of Stop.                                                         *)
(***************************************************************************)

AddCall(c, k) ==
    /\ apc[c].pc = "idle"
    /\ nAdds < MaxAdds
    /\ nAdds' = nAdds + 1
    /\ apc' = [apc EXCEPT ![c] = [pc |-> "lock", key |-> k, cb |-> nAdds + 1]]
    /\ UNCHANGED <<debVars, spc, invoked, notDeb>>

AddEnter(c) ==
    /\ apc[c].pc = "lock"
    /\ AddLock(<<"add", c>>, apc[c].key)
    /\ apc' = [apc EXCEPT ![c].pc = "body"]
    /\ UNCHANGED <<spc, nAdds, invoked, notDeb>>

AddBody(c) ==
    /\ apc[c].pc = "body"
    /\ Add(apc[c].key, apc[c].cb)
    /\ apc' = [apc EXCEPT ![c].pc = "idle"]
    /\ UNCHANGED <<spc, nAdds, invoked, notDeb>>

Expire(i) ==
    /\ TimerExpire(i)
    /\ UNCHANGED <<procVars, notDeb>>

FnLock(i) ==
    /\ HandlerLock(i)
    /\ UNCHANGED <<procVars, notDeb>>

FnDelete(i) ==
    /\ HandlerDelete(i)
    /\ UNCHANGED <<procVars, notDeb>>

\* Line 42 of the timer function: callback().
FnCallback(i) ==
    /\ tm[i].st = "cb"
    /\ tm' = [tm EXCEPT ![i].st = "done"]
    /\ invoked' = Append(invoked,
                    [key |-> tm[i].key, cb |-> tm[i].cb,
                     last |-> LastCb(tm[i].key),
                     rapid |-> tm[i].key \notin late /\ spc.pc = "idle"])
    /\ UNCHANGED <<timers, dmu, stopChan, late, apc, spc, nAdds, notDeb>>

StopCall ==
    /\ spc.pc = "idle"
    /\ Stop
    /\ spc' = [pc |-> "done", seen |-> Len(tm)]
    /\ UNCHANGED <<apc, nAdds, invoked, notDeb>>

\* No directory tree.
NoTree ==
    /\ fsDirs = {} /\ denied = {} /\ nFsOps = 0 /\ dynCreated = {}
    /\ osWatches = {} /\ watchedDirs = {}

\* Nobody calls Stop on a stand-alone Debouncer.
NoStop == [pc |-> "off", seen |-> 0]

\* New has returned the handle.
Constructed == npc = [pc |-> "done", err |-> "none"]

WatchOff ==
    /\ npc = [pc |-> "off", err |-> "none"]
    /\ recursive = FALSE
    /\ watchPath = <<>>
    /\ notifs = <<>> /\ osErrs = 0 /\ nNotifs = 0
    /\ wpc = [pc |-> "off"]
    /\ walks = <<>>
    /\ fmuW = Free /\ fmuR = {}
    /\ closed = FALSE
    /\ events = [buf |-> <<>>, closes |-> 0]
    /\ errors = [buf |-> <<>>, closes |-> 0]
    /\ osClosed = 0
    /\ cpc = <<>>
    /\ closeRets = {}
    /\ sentOnClosed = FALSE
    /\ dropped = <<>>
    /\ delivered = <<>>
    /\ NoTree

InitDeb ==
    /\ NewDebouncer
    /\ apc = [c \in Callers |-> [pc |-> "idle", key |-> "k1", cb |-> 0]]
    /\ spc = [pc |-> "idle", seen |-> 0]
    /\ nAdds = 0
    /\ invoked = <<>>
    /\ WatchOff
    /\ RestOff

NextDeb ==
    \/ \E c \in Callers, k \in Keys : AddCall(c, k)
    \/ \E c \in Callers : AddEnter(c)
    \/ \E c \in Callers : AddBody(c)
    \/ \E i \in 1..Len(tm) : Expire(i)
    \/ \E i \in 1..Len(tm) : FnLock(i)
    \/ \E i \in 1..Len(tm) : FnDelete(i)
    \/ \E i \in 1..Len(tm) : FnCallback(i)
    \/ StopCall

SpecDeb == InitDeb /\ [][NextDeb]_vars

-----------------------------------------------------------------------------
(***************************************************************************)
(* FileWatcher: the watch goroutine, the goroutines walking a subtree,     *)
(* the timer goroutines running sendEvent, goroutines calling Close, and   *)
(* the consumer of the two output channels.                                *)
(***************************************************************************)

\* fsnotify.Op bits.
Create == 1
Write == 2
Remove == 4
Rename == 8
Chmod == 16

\* Channel capacities chosen by New.
EventCap == 100
ErrCap == 10

Closers == {1, 2}
RawOps == {Create, Write}
WatchPaths == {"k1"}

\* Common directories to skip when watching recursively.
skipDirs == {".git", "node_modules", ".cache", ".npm", ".cargo", ".rustup",
             "__pycache__", ".pytest_cache", ".venv", "venv", ".tox", "dist",
             "build", "target", ".next", ".nuxt", "vendor", ".gradle", ".m2",
             ".idea", ".vscode"}

\* filepath.Base and the parent directory of a path.
Base(p) == p[Len(p)]
Parent(p) == SubSeq(p, 1, Len(p) - 1)

\* skipDirs[filepath.Base(path)]
Skipped_Never(p) == FALSE
Skipped(p) == Base(p) \in skipDirs

HasBit(op, bit) == (op \div bit) % 2 = 1

\* opToString with the first two cases of its switch exchanged.
opToString_WriteFirst(op) ==
    IF HasBit(op, Write) THEN "write"
    ELSE IF HasBit(op, Create) THEN "create"
    ELSE IF HasBit(op, Remove) THEN "remove"
    ELSE IF HasBit(op, Rename) THEN "rename"
    ELSE IF HasBit(op, Chmod) THEN "chmod"
    ELSE "unknown"

\* opToString: the first recognised bit in the order of the switch.
opToString(op) ==
    IF HasBit(op, Create) THEN "create"
    ELSE IF HasBit(op, Write) THEN "write"
    ELSE IF HasBit(op, Remove) THEN "remove"
    ELSE IF HasBit(op, Rename) THEN "rename"
    ELSE IF HasBit(op, Chmod) THEN "chmod"
    ELSE "unknown"

\* fw.mu.RLock() succeeds when no goroutine holds the write lock; fw.mu.Lock()
\* when nobody holds the lock at all.  (A pending writer is not given
\* priority over new readers: every behaviour of sync.RWMutex is a behaviour
\* of this lock.)
RLockFree == fmuW = Free
LockFree_IgnoresReaders == fmuW = Free
LockFree == fmuW = Free /\ fmuR = {}

\* The select of sendEvent / sendError on a channel of capacity cap: the
\* value is buffered if there is room, dropped otherwise.
TrySend_DropOldest(ch, cap, v) ==
    IF Len(ch.buf) < cap THEN [ch EXCEPT !.buf = Append(@, v)]
    ELSE [ch EXCEPT !.buf = Append(Tail(@), v)]
TrySend(ch, cap, v) ==
    IF Len(ch.buf) < cap THEN [ch EXCEPT !.buf = Append(@, v)] ELSE ch

\* sendEvent and sendError without their test of fw.closed.
SeesClosed_Never == FALSE

\* `if fw.closed { return }` in sendEvent and sendError.
SeesClosed == closed

\* `if fw.closed { return nil }` in Close.
AlreadyClosed_Never == FALSE
AlreadyClosed == closed

\* A goroutine starting addRecursive(root): filepath.Walk is about to visit
\* root.  todo holds the paths still to visit, in order; cur and names hold
\* the directory being visited and its entries as read by Walk; skipped
\* collects the directories left out for their name.
NewWalk(root) ==
    [root |-> root, pc |-> "lstat", todo |-> <<root>>, cur |-> <<>>,
     names |-> <<>>, skipped |-> {}]

\* The kernel queues a raw notification for a watched path.  Its ordinal
\* stands for the time.Now() that handleEvent will read.
OsNotify(p, op) ==
    /\ nNotifs < MaxNotifs
    /\ osClosed = 0
    /\ nNotifs' = nNotifs + 1
    /\ notifs' = Append(notifs, [name |-> p, op |-> op, seq |-> nNotifs + 1])
    /\ UNCHANGED <<debVars, recursive, watchPath, osErrs, wpc, walks, lockVars,
                   closeVars, chanVars, subVars, fsVars, notWatch>>

OsError ==
    /\ nNotifs < MaxNotifs
    /\ osClosed = 0
    /\ nNotifs' = nNotifs + 1
    /\ osErrs' = osErrs + 1
    /\ UNCHANGED <<debVars, recursive, watchPath, notifs, wpc, walks, lockVars,
                   closeVars, chanVars, subVars, fsVars, notWatch>>

\* handleEvent without its test of fw.recursive.
SpawnsWalk_IgnoresMode(n) ==
    /\ HasBit(n.op, Create)
    /\ n.name \in fsDirs
    /\ ~Skipped(n.name)

\* handleEvent starts a subtree walk: recursive mode, the Create bit is set,
\* os.Stat finds a directory, and its base name is not in skipDirs.
SpawnsWalk(n) ==
    /\ recursive
    /\ HasBit(n.op, Create)
    /\ n.name \in fsDirs
    /\ ~Skipped(n.name)

\* watch: `case event, ok := <-fw.watcher.Events` with ok, then handleEvent
\* up to the call of fw.debouncer.Add: the operation is normalised, the walk
\* of a new directory is started in its own goroutine, the Event is built.
WatchRecvEvent ==
    /\ wpc.pc = "select"
    /\ osClosed = 0
    /\ notifs # <<>>
    /\ notifs' = Tail(notifs)
    /\ walks' = IF SpawnsWalk(Head(notifs))
                THEN Append(walks, NewWalk(Head(notifs).name))
                ELSE walks
    /\ wpc' = [pc |-> "add_lock",
               ev |-> [path |-> Head(notifs).name,
                       op |-> opToString(Head(notifs).op),
                       ts |-> Head(notifs).seq]]
    /\ UNCHANGED <<debVars, recursive, watchPath, osErrs, nNotifs, lockVars,
                   closeVars, chanVars, subVars, fsVars, notWatch>>

\* fw.debouncer.Add: d.mu.Lock().
WatchAddLock ==
    /\ wpc.pc = "add_lock"
    /\ AddLock(<<"watch", 0>>, wpc.ev.path)
    /\ wpc' = [wpc EXCEPT !.pc = "add_body"]
    /\ UNCHANGED <<recursive, watchPath, osVars, walks, lockVars, closeVars,
                   chanVars, subVars, fsVars, notWatch>>

\* handleEvent returning after it has started the walk of a new directory.
WatchAddBody_SkipsNewDirs ==
    /\ wpc.pc = "add_body"
    /\ IF wpc.ev.op = "create" /\ wpc.ev.path \in fsDirs
       THEN UNCHANGED debVars
       ELSE Add(wpc.ev.path, wpc.ev)
    /\ wpc' = [pc |-> "select"]
    /\ UNCHANGED <<recursive, watchPath, osVars, walks, lockVars, closeVars,
                   chanVars, subVars, fsVars, notWatch>>

\* fw.debouncer.Add(event.Name, func() { fw.sendEvent(ev) }): body and return.
WatchAddBody ==
    /\ wpc.pc = "add_body"
    /\ Add(wpc.ev.path, wpc.ev)
    /\ wpc' = [pc |-> "select"]
    /\ UNCHANGED <<recursive, watchPath, osVars, walks, lockVars, closeVars,
                   chanVars, subVars, fsVars, notWatch>>

\* watch: `case err, ok := <-fw.watcher.Errors` with ok: sendError(err).
WatchRecvError ==
    /\ wpc.pc = "select"
    /\ osClosed = 0
    /\ osErrs > 0
    /\ osErrs' = osErrs - 1
    /\ wpc' = [pc |-> "err_rlock"]
    /\ UNCHANGED <<debVars, recursive, watchPath, notifs, nNotifs, walks, lockVars,
                   closeVars, chanVars, subVars, fsVars, notWatch>>

\* watch: a receive with !ok after fw.watcher.Close(): return.
WatchExit ==
    /\ wpc.pc = "select"
    /\ osClosed > 0
    /\ wpc' = [pc |-> "exit"]
    /\ UNCHANGED <<debVars, recursive, watchPath, osVars, walks, lockVars,
                   closeVars, chanVars, subVars, fsVars, notWatch>>

\* A subtree walk whose course over the tree is left open ends: without
\* error, or with an error that is not a permission error and is passed to
\* sendError.
WalkEnds(n, failed) ==
    /\ walks[n].pc = "walk"
    /\ walks' = [walks EXCEPT ![n].pc = IF failed THEN "err_rlock" ELSE "done"]
    /\ UNCHANGED <<debVars, recursive, watchPath, osVars, wpc, lockVars, closeVars,
                   chanVars, subVars, fsVars, notWatch>>

\* ---- sendError, by the watch goroutine or by a walk goroutine
ErrSenders == {<<"watch", 0>>} \cup {<<"walk", n>> : n \in 1..Len(walks)}
ErrPc(g) == IF g[1] = "watch" THEN wpc.pc ELSE walks[g[2]].pc
SetErrPc(g, pc) ==
    IF g[1] = "watch"
    THEN wpc' = [pc |-> IF pc = "done" THEN "select" ELSE pc] /\ UNCHANGED walks
    ELSE walks' = [walks EXCEPT ![g[2]].pc = pc] /\ UNCHANGED wpc

\* fw.mu.RLock(); if fw.closed { return } (with the deferred RUnlock).
sendErrorCheck(g) ==
    /\ ErrPc(g) = "err_rlock"
    /\ RLockFree
    /\ IF SeesClosed
       THEN UNCHANGED fmuR /\ SetErrPc(g, "done")
       ELSE fmuR' = fmuR \cup {g} /\ SetErrPc(g, "err_select")
    /\ UNCHANGED <<debVars, recursive, watchPath, osVars, fmuW, closeVars, chanVars,
                   subVars, fsVars, notWatch>>

\* select { case fw.errors <- err: default: }, then the deferred RUnlock.
sendErrorSelect(g) ==
    /\ ErrPc(g) = "err_select"
    /\ errors' = TrySend(errors, ErrCap, g[1])
    /\ sentOnClosed' = (sentOnClosed \/ errors.closes > 0)
    /\ dropped' = IF errors' = errors
                  THEN <<[ch |-> "errors", v |-> <<g[1]>>]>> \o dropped
                  ELSE dropped
    /\ fmuR' = fmuR \ {g}
    /\ SetErrPc(g, "done")
    /\ UNCHANGED <<debVars, recursive, watchPath, osVars, fmuW, closeVars, events,
                   delivered, subVars, fsVars, notWatch>>

\* ---- sendEvent, run as the callback of timer i (debouncer.go:42)
\* fw.mu.RLock(); if fw.closed { return } (with the deferred RUnlock).
sendEventCheck(i) ==
    /\ tm[i].st = "cb"
    /\ RLockFree
    /\ IF SeesClosed
       THEN UNCHANGED fmuR /\ tm' = [tm EXCEPT ![i].st = "done"]
       ELSE fmuR' = fmuR \cup {<<"timer", i>>} /\ tm' = [tm EXCEPT ![i].st = "select"]
    /\ UNCHANGED <<timers, dmu, stopChan, late, recursive, watchPath, osVars, wpc,
                   walks, fmuW, closeVars, chanVars, subVars, fsVars, notWatch>>

\* select { case fw.events <- event: default: }, then the deferred RUnlock.
sendEventSelect(i) ==
    /\ tm[i].st = "select"
    /\ events' = TrySend(events, EventCap, tm[i].cb)
    /\ sentOnClosed' = (sentOnClosed \/ events.closes > 0)
    /\ dropped' = IF events' = events
                  THEN <<[ch |-> "events", v |-> <<tm[i].cb>>]>> \o dropped
                  ELSE dropped
    /\ delivered' = IF events' = events THEN delivered
                    ELSE Append(delivered, [ev |-> tm[i].cb,
                                            last |-> LastCb(tm[i].key),
                                            rapid |-> tm[i].key \notin late])
    /\ fmuR' = fmuR \ {<<"timer", i>>}
    /\ tm' = [tm EXCEPT ![i].st = "done"]
    /\ UNCHANGED <<timers, dmu, stopChan, late, recursive, watchPath, osVars, wpc,
                   walks, fmuW, closeVars, errors, subVars, fsVars, notWatch>>

WExpire(i) ==
    /\ TimerExpire(i)
    /\ UNCHANGED <<watchVars, notWatch>>

WFnLock(i) ==
    /\ HandlerLock(i)
    /\ UNCHANGED <<watchVars, notWatch>>

WFnDelete(i) ==
    /\ HandlerDelete(i)
    /\ UNCHANGED <<watchVars, notWatch>>

\* ---- Close, called by closer c
\* fw.mu.Lock(); if fw.closed { return nil }; fw.closed = true.
CloseEnter(c) ==
    /\ cpc[c] = "idle"
    /\ LockFree
    /\ IF AlreadyClosed
       THEN /\ closeRets' = closeRets \cup {<<"later", "nil">>}
            /\ UNCHANGED <<fmuW, closed, cpc>>
       ELSE /\ fmuW' = <<"close", c>>
            /\ closed' = TRUE
            /\ cpc' = [cpc EXCEPT ![c] = "stop"]
            /\ UNCHANGED closeRets
    /\ UNCHANGED <<debVars, recursive, watchPath, osVars, wpc, walks, fmuR, osClosed,
                   chanVars, subVars, fsVars, notWatch>>

\* fw.debouncer.Stop().
CloseStop(c) ==
    /\ cpc[c] = "stop"
    /\ Stop
    /\ cpc' = [cpc EXCEPT ![c] = "chans"]
    /\ UNCHANGED <<recursive, watchPath, osVars, wpc, walks, lockVars, closed,
                   osClosed, closeRets, chanVars, subVars, fsVars, notWatch>>

\* Close without its deferred fw.mu.Unlock().
CloseChans_KeepsLock(c) ==
    /\ cpc[c] = "chans"
    /\ events' = [events EXCEPT !.closes = @ + 1]
    /\ errors' = [errors EXCEPT !.closes = @ + 1]
    /\ osClosed' = osClosed + 1
    /\ cpc' = [cpc EXCEPT ![c] = "idle"]
    /\ closeRets' = closeRets \cup {<<"first", "os">>}
    /\ UNCHANGED <<debVars, recursive, watchPath, osVars, wpc, walks, lockVars, closed,
                   sentOnClosed, dropped, delivered, subVars, fsVars, notWatch>>

\* close(fw.events); close(fw.errors); return fw.watcher.Close(), then the
\* deferred fw.mu.Unlock().
CloseChans(c) ==
    /\ cpc[c] = "chans"
    /\ events' = [events EXCEPT !.closes = @ + 1]
    /\ errors' = [errors EXCEPT !.closes = @ + 1]
    /\ osClosed' = osClosed + 1
    /\ fmuW' = Free
    /\ cpc' = [cpc EXCEPT ![c] = "idle"]
    /\ closeRets' = closeRets \cup {<<"first", "os">>}
    /\ UNCHANGED <<debVars, recursive, watchPath, osVars, wpc, walks, fmuR, closed,
                   sentOnClosed, dropped, delivered, subVars, fsVars, notWatch>>

\* ---- the consumer of Events() and Errors()
ConsumeEvent ==
    /\ events.buf # <<>>
    /\ events' = [events EXCEPT !.buf = Tail(@)]
    /\ UNCHANGED <<debVars, recursive, watchPath, osVars, wpc, walks, lockVars,
                   closeVars, errors, sentOnClosed, dropped, delivered, subVars,
                   fsVars, notWatch>>

ConsumeError ==
    /\ errors.buf # <<>>
    /\ errors' = [errors EXCEPT !.buf = Tail(@)]
    /\ UNCHANGED <<debVars, recursive, watchPath, osVars, wpc, walks, lockVars,
                   closeVars, events, sentOnClosed, dropped, delivered, subVars,
                   fsVars, notWatch>>

DebOff ==
    /\ apc = <<>>
    /\ spc = NoStop
    /\ nAdds = 0
    /\ invoked = <<>>
    /\ RestOff

\* A running recursive watcher: the watch goroutine at its select, an idle
\* Debouncer, the goroutine of the initial subtree walk under way, and the
\* two channels holding ne and nr values the consumer has not read yet.  The
\* directory tree is left out: every notification names a file.
Running(ne, nr) ==
    /\ NewDebouncer
    /\ DebOff
    /\ Constructed
    /\ recursive = TRUE
    /\ watchPath = <<>>
    /\ notifs = <<>> /\ osErrs = 0 /\ nNotifs = 0
    /\ wpc = [pc |-> "select"]
    /\ walks = <<[NewWalk(<<>>) EXCEPT !.pc = "walk"]>>
    /\ fmuW = Free /\ fmuR = {}
    /\ closed = FALSE
    /\ events = [buf |-> [n \in 1..ne |-> [path |-> "k1", op |-> "write", ts |-> 0]],
                 closes |-> 0]
    /\ errors = [buf |-> [n \in 1..nr |-> "watch"], closes |-> 0]
    /\ osClosed = 0
    /\ cpc = [c \in Closers |-> "idle"]
    /\ closeRets = {}
    /\ sentOnClosed = FALSE
    /\ dropped = <<>>
    /\ delivered = <<>>
    /\ NoTree

\* The state New leaves behind: both channels empty.
InitWatch == Running(0, 0)

NextProducers ==
    \/ \E p \in WatchPaths, op \in RawOps : OsNotify(p, op)
    \/ OsError
    \/ WatchRecvEvent
    \/ WatchAddLock
    \/ WatchAddBody
    \/ WatchRecvError
    \/ WatchExit
    \/ \E n \in 1..Len(walks), f \in BOOLEAN : WalkEnds(n, f)
    \/ \E g \in ErrSenders : sendErrorCheck(g)
    \/ \E g \in ErrSenders : sendErrorSelect(g)
    \/ \E i \in 1..Len(tm) : WExpire(i)
    \/ \E i \in 1..Len(tm) : WFnLock(i)
    \/ \E i \in 1..Len(tm) : WFnDelete(i)
    \/ \E i \in 1..Len(tm) : sendEventCheck(i)
    \/ \E i \in 1..Len(tm) : sendEventSelect(i)
    \/ \E c \in Closers : CloseEnter(c)
    \/ \E c \in Closers : CloseStop(c)
    \/ \E c \in Closers : CloseChans(c)

NextWatch ==
    \/ NextProducers
    \/ ConsumeEvent
    \/ ConsumeError

SpecWatch == InitWatch /\ [][NextWatch]_vars

\* The steps of the goroutines the Go scheduler runs: the watch goroutine,
\* the goroutines inside sendError, the timer functions (the runtime fires a
\* timer that is not stopped), and a Close that has taken fw.mu.  Whoever
\* calls Close or reads the channels, the kernel producing notifications
\* and the course of a subtree walk are under no obligation.
WatchSteps ==
    \/ WatchRecvEvent \/ WatchAddLock \/ WatchAddBody \/ WatchRecvError \/ WatchExit
ErrSteps == \E g \in ErrSenders : sendErrorCheck(g) \/ sendErrorSelect(g)
TimerSteps ==
    \E i \in 1..Len(tm) :
        WExpire(i) \/ WFnLock(i) \/ WFnDelete(i) \/ sendEventCheck(i) \/ sendEventSelect(i)
CloseSteps == \E c \in Closers : CloseStop(c) \/ CloseChans(c)

SpecWatchLive ==
    /\ InitWatch /\ [][NextWatch]_vars
    /\ WF_vars(WatchSteps) /\ WF_vars(ErrSteps)
    /\ WF_vars(TimerSteps) /\ WF_vars(CloseSteps)

\* A watcher whose consumer never reads: one channel is full and the other
\* one short of full.
InitFull == Running(EventCap - 1, ErrCap) \/ Running(EventCap, ErrCap - 1)

SpecFull == InitFull /\ [][NextProducers]_vars

-----------------------------------------------------------------------------
(***************************************************************************)
(* Recursive subscription: addRecursive walking a directory tree that      *)
(* changes under it.                                                       *)
(***************************************************************************)

\* The names a directory can bear in the model, in the lexical order in
\* which filepath.Walk visits them, and the depth of the tree below the
\* root.
DirNames == <<"a", "build">>
RootNames == {"proj", "vendor"}
MaxDepth == 2

\* The entries of directory p, as readDirNames returns them (sorted).
ReadDirNames(p) ==
    LET all == [i \in 1..Len(DirNames) |-> Append(p, DirNames[i])]
        Exists(d) == d \in fsDirs
    IN  SelectSeq(all, Exists)

\* Every path the tree below root can hold.
TreePaths(root) ==
    {root \o t : t \in UNION {[1..k -> {DirNames[i] : i \in 1..Len(DirNames)}] :
                              k \in 1..MaxDepth}}

\* What is left to visit after the current step, and the position reached:
\* Walk returns nil once nothing is left.
Continue(w, todo) ==
    [w EXCEPT !.todo = todo, !.cur = <<>>, !.names = <<>>,
              !.pc = IF todo = <<>> THEN "done" ELSE "lstat"]

\* The walk function returning every error it is given, permission errors
\* included.
WalkLstat_DeniedFails(n) ==
    LET w == walks[n]
        p == Head(w.todo)
    IN  /\ w.pc = "lstat"
        /\ walks' = [walks EXCEPT ![n] =
                IF p \notin fsDirs \/ p \in denied
                  THEN [w EXCEPT !.pc = "err_rlock", !.todo = <<>>]
                ELSE [w EXCEPT !.pc = "walkfn", !.cur = p, !.names = ReadDirNames(p)]]
        /\ UNCHANGED <<debVars, recursive, watchPath, osVars, wpc, lockVars,
                       closeVars, chanVars, subVars, fsVars, notWatch>>

\* filepath.Walk reaches the next path: Lstat, then readDirNames.  A path
\* that no longer exists makes the walk function return the error, which
\* ends the walk; a directory that cannot be read makes it return SkipDir.
WalkLstat(n) ==
    LET w == walks[n]
        p == Head(w.todo)
    IN  /\ w.pc = "lstat"
        /\ walks' = [walks EXCEPT ![n] =
                IF p \notin fsDirs
                  THEN [w EXCEPT !.pc = "err_rlock", !.todo = <<>>]
                ELSE IF p \in denied
                  THEN Continue(w, Tail(w.todo))
                ELSE [w EXCEPT !.pc = "walkfn", !.cur = p, !.names = ReadDirNames(p)]]
        /\ UNCHANGED <<debVars, recursive, watchPath, osVars, wpc, lockVars,
                       closeVars, chanVars, subVars, fsVars, notWatch>>

\* fw.watchedDirs.Load(path)
AlreadyWatched(p) == p \in watchedDirs

\* The walk function on a directory: SkipDir if the path is already in
\* fw.watchedDirs or its base name is in skipDirs.
WalkFn(n) ==
    LET w == walks[n]
    IN  /\ w.pc = "walkfn"
        /\ walks' = [walks EXCEPT ![n] =
                IF AlreadyWatched(w.cur)
                  THEN Continue(w, Tail(w.todo))
                ELSE IF Skipped(w.cur)
                  THEN Continue([w EXCEPT !.skipped = @ \cup {w.cur}], Tail(w.todo))
                ELSE [w EXCEPT !.pc = "add"]]
        /\ UNCHANGED <<debVars, recursive, watchPath, osVars, wpc, lockVars,
                       closeVars, chanVars, subVars, fsVars, notWatch>>

\* fw.watcher.Add(path) (line 132).  Add fails, with an error that is not
\* a permission error, on a directory removed meanwhile or a closed
\* watcher, which ends the walk; on a directory that cannot be read it fails
\* with a permission error and the walk function returns SkipDir.
WalkAdd(n) ==
    LET w == walks[n]
    IN  /\ w.pc = "add"
        /\ IF w.cur \notin fsDirs \/ osClosed > 0
           THEN /\ walks' = [walks EXCEPT ![n] =
                               [w EXCEPT !.pc = "err_rlock", !.todo = <<>>]]
                /\ UNCHANGED osWatches
           ELSE IF w.cur \in denied
           THEN /\ walks' = [walks EXCEPT ![n] = Continue(w, Tail(w.todo))]
                /\ UNCHANGED osWatches
           ELSE /\ walks' = [walks EXCEPT ![n].pc = "store"]
                /\ osWatches' = osWatches \cup {w.cur}
        /\ UNCHANGED <<debVars, recursive, watchPath, osVars, wpc, lockVars,
                       closeVars, chanVars, watchedDirs, fsVars, notWatch>>

\* fw.watchedDirs.Store(path, true) (line 139) and `return nil`; Walk then
\* descends into the entries it read.
WalkStore(n) ==
    LET w == walks[n]
    IN  /\ w.pc = "store"
        /\ walks' = [walks EXCEPT ![n] = Continue(w, w.names \o Tail(w.todo))]
        /\ watchedDirs' = watchedDirs \cup {w.cur}
        /\ UNCHANGED <<debVars, recursive, watchPath, osVars, wpc, lockVars,
                       closeVars, chanVars, osWatches, fsVars, notWatch>>

\* ---- the directory tree changing under the watcher
\* mkdir p: the kernel reports the creation if the parent is watched.
Mkdir(p) ==
    /\ nFsOps < MaxFsOps
    /\ p \notin fsDirs
    /\ Parent(p) \in fsDirs /\ Parent(p) \notin denied
    /\ nFsOps' = nFsOps + 1
    /\ fsDirs' = fsDirs \cup {p}
    /\ IF Parent(p) \in osWatches
       THEN /\ notifs' = Append(notifs, [name |-> p, op |-> Create, seq |-> nNotifs + 1])
            /\ nNotifs' = nNotifs + 1
            /\ dynCreated' = dynCreated \cup {p}
       ELSE UNCHANGED <<notifs, nNotifs, dynCreated>>
    /\ UNCHANGED <<debVars, recursive, watchPath, osErrs, wpc, walks, lockVars,
                   closeVars, chanVars, subVars, denied, notWatch>>

\* rmdir p (an empty directory): the kernel drops the watch on p, and
\* reports the removal if the parent is watched.
Rmdir(p) ==
    /\ nFsOps < MaxFsOps
    /\ p \in fsDirs
    /\ p # watchPath
    /\ ReadDirNames(p) = <<>>
    /\ nFsOps' = nFsOps + 1
    /\ fsDirs' = fsDirs \ {p}
    /\ osWatches' = osWatches \ {p}
    /\ dynCreated' = dynCreated \ {p}
    /\ IF Parent(p) \in osWatches
       THEN /\ notifs' = Append(notifs, [name |-> p, op |-> Remove, seq |-> nNotifs + 1])
            /\ nNotifs' = nNotifs + 1
       ELSE UNCHANGED <<notifs, nNotifs>>
    /\ UNCHANGED <<debVars, recursive, watchPath, osErrs, wpc, walks, lockVars,
                   closeVars, chanVars, watchedDirs, denied, notWatch>>

\* The trees New may find below the root.
InitTrees(root) ==
    { {},
      {root \o <<"a">>, root \o <<"a", "a">>, root \o <<"build">>,
       root \o <<"build", "a">>} }

\* The state New(path, true) leaves behind: the root subscribed and recorded
\* in fw.watchedDirs, the watch goroutine at its select, and the goroutine
\* of the initial walk about to start.
InitWalk ==
    /\ NewDebouncer
    /\ DebOff
    /\ Constructed
    /\ recursive = TRUE
    /\ \E r \in RootNames : watchPath = <<r>>
    /\ \E t \in InitTrees(watchPath) : fsDirs = {watchPath} \cup t
    /\ denied \in {{}, {watchPath \o <<"a", "a">>}}
    /\ nFsOps = 0
    /\ dynCreated = {}
    /\ osWatches = {watchPath}
    /\ watchedDirs = {watchPath}
    /\ walks = <<NewWalk(watchPath)>>
    /\ notifs = <<>> /\ osErrs = 0 /\ nNotifs = 0
    /\ wpc = [pc |-> "select"]
    /\ fmuW = Free /\ fmuR = {}
    /\ closed = FALSE
    /\ events = [buf |-> <<>>, closes |-> 0]
    /\ errors = [buf |-> <<>>, closes |-> 0]
    /\ osClosed = 0
    /\ cpc = [c \in Closers |-> "idle"]
    /\ closeRets = {}
    /\ sentOnClosed = FALSE
    /\ dropped = <<>>
    /\ delivered = <<>>

NextWalk ==
    \/ \E p \in TreePaths(watchPath) : Mkdir(p)
    \/ \E p \in TreePaths(watchPath) : Rmdir(p)
    \/ WatchRecvEvent
    \/ WatchAddLock
    \/ WatchAddBody
    \/ \E n \in 1..Len(walks) : WalkLstat(n)
    \/ \E n \in 1..Len(walks) : WalkFn(n)
    \/ \E n \in 1..Len(walks) : WalkAdd(n)
    \/ \E n \in 1..Len(walks) : WalkStore(n)
    \/ \E g \in ErrSenders : sendErrorCheck(g)
    \/ \E g \in ErrSenders : sendErrorSelect(g)

SpecWalk == InitWalk /\ [][NextWalk]_vars

-----------------------------------------------------------------------------
(***************************************************************************)
(* Manager: the snapshot store, with concurrent callers of Update, Remove  *)
(* and Clear.  What os.ReadFile finds at the path is an input of Update,   *)
(* chosen at the moment of the read.                                       *)
(***************************************************************************)

StorePaths == {"p", "q"}
StoreCallers == {1, 2}

\* What os.ReadFile can find at a path: no file, a file that cannot be
\* read, or the bytes of the file.
Contents == {<<97>>, <<98>>}
Absent == [kind |-> "absent", bytes |-> <<>>]
Unreadable == [kind |-> "unreadable", bytes |-> <<>>]
File(bytes) == [kind |-> "file", bytes |-> bytes]
FileStates == {Absent, Unreadable} \cup {File(b) : b \in Contents}
Nil == <<>>     \* the nil Content of a FileState

\* &FileState{Path: path, Exists: false}: the old state of a path with no
\* entry.  id tells allocations apart and is 0 for this synthesized value.
Synthesized(path) == [path |-> path, content |-> Nil, exists |-> FALSE, id |-> 0]

\* oldState := m.states[path]; if oldState == nil { ... }
OldState(path) ==
    IF path \in DOMAIN states THEN states[path] ELSE Synthesized(path)

\* os.IsNotExist(err): the read failed because there is no file at the path.
IsNotExist_Never(found) == FALSE
IsNotExist(found) == found = Absent

\* The read failed with another error, which makes Update return it.
ReadFails_Never(found) == FALSE
ReadFails(found) == found = Unreadable

\* newState after os.ReadFile: Exists is true and Content the bytes read,
\* or Exists is false when the file does not exist; on any other error the
\* value is returned as it was built, with Exists true and no Content.
NewState(path, found, id) ==
    [path |-> path,
     content |-> IF found.kind = "file" THEN found.bytes ELSE Nil,
     exists |-> ~IsNotExist(found),
     id |-> id]

\* m.mu.Lock() succeeds when nobody holds the mutex.
StoreLockFree_Always == TRUE
StoreLockFree == smu = Free

\* delete(m.states, path)
RemoveEntry_All(path) == EmptyMap
RemoveEntry(path) == [q \in DOMAIN states \ {path} |-> states[q]]

\* m.states[path] = newState
StoreEntry(path, st) ==
    [q \in DOMAIN states \cup {path} |-> IF q = path THEN st ELSE states[q]]

\* Update: m.mu.Lock() and the old state (lines 40-50).
UpdateLock(c, path) ==
    /\ upc[c].pc = "idle"
    /\ nStoreOps < MaxStoreOps
    /\ StoreLockFree
    /\ nStoreOps' = nStoreOps + 1
    /\ smu' = <<"update", c>>
    /\ upc' = [upc EXCEPT ![c] = [pc |-> "read", path |-> path,
                                  old |-> OldState(path),
                                  had |-> path \in tracked]]
    /\ UNCHANGED <<states, nAlloc, slog, tracked, notStore>>

\* Update: os.ReadFile, the new state, the store of it unless the read
\* failed with an error other than not-exist, the deferred Unlock and the
\* return (lines 52-72).
UpdateRead(c, found) ==
    LET path == upc[c].path
        new == NewState(path, found, nAlloc + 1)
        err == ReadFails(found)
    IN  /\ upc[c].pc = "read"
        /\ nAlloc' = nAlloc + 1
        /\ states' = IF err THEN states ELSE StoreEntry(path, new)
        /\ tracked' = IF err THEN tracked ELSE tracked \cup {path}
        /\ smu' = Free
        /\ slog' = Append(slog, [op |-> "update", path |-> path, old |-> upc[c].old,
                                 new |-> new, err |-> err, had |-> upc[c].had,
                                 found |-> found,
                                 before |-> states, after |-> states'])
        /\ upc' = [upc EXCEPT ![c] = [pc |-> "idle"]]
        /\ UNCHANGED <<nStoreOps, notStore>>

\* Remove(path): Lock, delete, Unlock.
RemoveCall(path) ==
    /\ nStoreOps < MaxStoreOps
    /\ StoreLockFree
    /\ nStoreOps' = nStoreOps + 1
    /\ states' = RemoveEntry(path)
    /\ tracked' = tracked \ {path}
    /\ slog' = Append(slog, [op |-> "remove", path |-> path,
                             before |-> states, after |-> states'])
    /\ UNCHANGED <<smu, upc, nAlloc, notStore>>

\* Clear(): Lock, replace the map, Unlock.
ClearCall ==
    /\ nStoreOps < MaxStoreOps
    /\ StoreLockFree
    /\ nStoreOps' = nStoreOps + 1
    /\ states' = EmptyMap
    /\ tracked' = {}
    /\ slog' = Append(slog, [op |-> "clear", path |-> "",
                             before |-> states, after |-> states'])
    /\ UNCHANGED <<smu, upc, nAlloc, notStore>>

InitStore ==
    /\ NewManager
    /\ upc = [c \in StoreCallers |-> [pc |-> "idle"]]
    /\ DiffOff
    /\ NewDebouncer
    /\ apc = <<>> /\ spc = NoStop /\ nAdds = 0 /\ invoked = <<>>
    /\ WatchOff
    /\ UiOff

NextStore ==
    \/ \E c \in StoreCallers, p \in StorePaths : UpdateLock(c, p)
    \/ \E c \in StoreCallers, f \in FileStates : UpdateRead(c, f)
    \/ \E p \in StorePaths : RemoveCall(p)
    \/ ClearCall

SpecStore == InitStore /\ [][NextStore]_vars

-----------------------------------------------------------------------------
(***************************************************************************)
(* Engine.Compute and isBinary (part_005).  Contents are sequences of      *)
(* bytes, lines are the pieces strings.Split cuts them into.  The matcher  *)
(* and the unified writer are those of go-difflib, which Compute calls;    *)
(* no text given here has the 200 lines from which the matcher starts to   *)
(* set popular lines aside.                                                *)
(***************************************************************************)

LF == 10            \* "\n"
CheckSize == 8192   \* checkSize := 8192
Context == 3        \* Context: 3

Max(x, y) == IF x > y THEN x ELSE y
Min(x, y) == IF x < y THEN x ELSE y

RECURSIVE Concat(_)
Concat(ss) == IF ss = <<>> THEN <<>> ELSE Head(ss) \o Concat(Tail(ss))

\* A split at the first LF only.
Split_AtFirstLF(content) ==
    IF \A i \in 1..Len(content) : content[i] # LF THEN <<content>>
    ELSE LET i == CHOOSE k \in 1..Len(content) :
                      content[k] = LF /\ \A m \in 1..(k - 1) : content[m] # LF
         IN  <<SubSeq(content, 1, i - 1), SubSeq(content, i + 1, Len(content))>>

\* strings.Split(string(content), "\n")
RECURSIVE Split(_)
Split(content) ==
    IF \A i \in 1..Len(content) : content[i] # LF THEN <<content>>
    ELSE LET i == CHOOSE k \in 1..Len(content) :
                      content[k] = LF /\ \A m \in 1..(k - 1) : content[m] # LF
         IN  <<SubSeq(content, 1, i - 1)>> \o Split(SubSeq(content, i + 1, Len(content)))

\* The test of the second loop of isBinary on one byte.
NonPrintable(b) ==
    \/ b < 32 /\ b # 9 /\ b # 10 /\ b # 13
    \/ b > 126 /\ b < 128

\* The first loop of isBinary: a null byte in the sample.
HasNullByte_Never(content, checkSize) == FALSE
HasNullByte(content, checkSize) == \E i \in 1..checkSize : content[i] = 0

\* float64(nonPrintable)/float64(len(sample)) > 0.30.  Both operands are
\* integers below 2^53 and the quotient is correctly rounded, so the
\* comparison with the double nearest to 0.30 is that of the fractions.
OverThreshold(nonPrintable, sampleLen) == 10 * nonPrintable > 3 * sampleLen

isBinary(content) ==
    IF Len(content) = 0 THEN FALSE
    ELSE LET checkSize == IF Len(content) < CheckSize THEN Len(content) ELSE CheckSize
             nonPrintable == Cardinality({i \in 1..checkSize : NonPrintable(content[i])})
         IN  \/ HasNullByte(content, checkSize)
             \/ OverThreshold(nonPrintable, checkSize)

\* DiffLine; a line number that does not apply is 0.
DiffLine(type, oldLineNum, newLineNum, content) ==
    [type |-> type, oldLineNum |-> oldLineNum, newLineNum |-> newLineNum,
     content |-> content]

\* The length of the run of equal lines of a and b that starts at a[i],
\* b[j] (indices from 0, as in the source) and stays below ahi, bhi.
RECURSIVE RunLen(_, _, _, _, _, _)
RunLen(a, b, i, j, ahi, bhi) ==
    IF i < ahi /\ j < bhi /\ a[i + 1] = b[j + 1]
      THEN 1 + RunLen(a, b, i + 1, j + 1, ahi, bhi)
      ELSE 0

\* SequenceMatcher.findLongestMatch: the longest block a[i:i+k] = b[j:j+k]
\* inside a[alo:ahi], b[blo:bhi]; of the longest the one that starts
\* earliest in a, and of those the one that starts earliest in b.
findLongestMatch(a, b, alo, ahi, blo, bhi) ==
    LET cand == {x \in (alo..(ahi - 1)) \X (blo..(bhi - 1)) :
                    RunLen(a, b, x[1], x[2], ahi, bhi) > 0}
        Size(x) == RunLen(a, b, x[1], x[2], ahi, bhi)
        Before(x, y) ==
            \/ Size(x) > Size(y)
            \/ Size(x) = Size(y) /\ x[1] < y[1]
            \/ Size(x) = Size(y) /\ x[1] = y[1] /\ x[2] <= y[2]
    IN  IF cand = {} THEN [A |-> alo, B |-> blo, Size |-> 0]
        ELSE LET best == CHOOSE x \in cand : \A y \in cand : Before(x, y)
             IN  [A |-> best[1], B |-> best[2], Size |-> Size(best)]

\* The recursion of GetMatchingBlocks: the longest match, then the same to
\* the left and to the right of it.
RECURSIVE matchBlocks(_, _, _, _, _, _)
matchBlocks(a, b, alo, ahi, blo, bhi) ==
    LET m == findLongestMatch(a, b, alo, ahi, blo, bhi)
        i == m.A
        j == m.B
        k == m.Size
    IN  IF k = 0 THEN <<>>
        ELSE (IF alo < i /\ blo < j THEN matchBlocks(a, b, alo, i, blo, j) ELSE <<>>)
             \o <<m>>
             \o (IF i + k < ahi /\ j + k < bhi
                   THEN matchBlocks(a, b, i + k, ahi, j + k, bhi) ELSE <<>>)

\* The end of GetMatchingBlocks: adjacent blocks are merged.
RECURSIVE Collapse(_, _)
Collapse(blocks, cur) ==
    IF blocks = <<>>
      THEN IF cur.Size > 0 THEN <<cur>> ELSE <<>>
    ELSE LET nb == Head(blocks)
         IN  IF cur.A + cur.Size = nb.A /\ cur.B + cur.Size = nb.B
               THEN Collapse(Tail(blocks), [cur EXCEPT !.Size = @ + nb.Size])
               ELSE (IF cur.Size > 0 THEN <<cur>> ELSE <<>>)
                    \o Collapse(Tail(blocks), nb)

\* GetMatchingBlocks, with the closing block of size 0.
GetMatchingBlocks(a, b) ==
    Collapse(matchBlocks(a, b, 0, Len(a), 0, Len(b)), [A |-> 0, B |-> 0, Size |-> 0])
        \o <<[A |-> Len(a), B |-> Len(b), Size |-> 0]>>

OpCode(tag, i1, i2, j1, j2) == [Tag |-> tag, I1 |-> i1, I2 |-> i2, J1 |-> j1, J2 |-> j2]

\* The loop of GetOpCodes over the matching blocks.
RECURSIVE OpCodesFrom(_, _, _)
OpCodesFrom(matching, i, j) ==
    IF matching = <<>> THEN <<>>
    ELSE LET m == Head(matching)
             gap == IF i < m.A /\ j < m.B THEN <<OpCode("r", i, m.A, j, m.B)>>
                    ELSE IF i < m.A THEN <<OpCode("d", i, m.A, j, m.B)>>
                    ELSE IF j < m.B THEN <<OpCode("i", i, m.A, j, m.B)>>
                    ELSE <<>>
             eq == IF m.Size > 0
                     THEN <<OpCode("e", m.A, m.A + m.Size, m.B, m.B + m.Size)>>
                     ELSE <<>>
         IN  gap \o eq \o OpCodesFrom(Tail(matching), m.A + m.Size, m.B + m.Size)

GetOpCodes(a, b) == OpCodesFrom(GetMatchingBlocks(a, b), 0, 0)

\* The lines of old[i1:i2] as Deleted and of new[j1:j2] as Added.
DeletedSpan_LastLine(oldLines, i1, i2) ==
    [n \in 1..(i2 - i1) |-> DiffLine("Deleted", i1 + n, 0, oldLines[i2])]
DeletedSpan(oldLines, i1, i2) ==
    [n \in 1..(i2 - i1) |-> DiffLine("Deleted", i1 + n, 0, oldLines[i1 + n])]
AddedSpan(newLines, j1, j2) ==
    [n \in 1..(j2 - j1) |-> DiffLine("Added", 0, j1 + n, newLines[j1 + n])]

\* One case of the switch of computeStructuredDiff.
OpcodeLines_AddedFirst(op, oldLines, newLines) ==
    IF op.Tag = "e"
      THEN [n \in 1..(op.I2 - op.I1) |->
               DiffLine("Unchanged", op.I1 + n, op.J1 + n, oldLines[op.I1 + n])]
    ELSE AddedSpan(newLines, op.J1, op.J2) \o DeletedSpan(oldLines, op.I1, op.I2)
OpcodeLines(op, oldLines, newLines) ==
    IF op.Tag = "e"
      THEN [n \in 1..(op.I2 - op.I1) |->
               DiffLine("Unchanged", op.I1 + n, op.J1 + n, oldLines[op.I1 + n])]
    ELSE IF op.Tag = "d" THEN DeletedSpan(oldLines, op.I1, op.I2)
    ELSE IF op.Tag = "i" THEN AddedSpan(newLines, op.J1, op.J2)
    ELSE DeletedSpan(oldLines, op.I1, op.I2) \o AddedSpan(newLines, op.J1, op.J2)

computeStructuredDiff(oldLines, newLines) ==
    LET opcodes == GetOpCodes(oldLines, newLines)
    IN  Concat([n \in 1..Len(opcodes) |-> OpcodeLines(opcodes[n], oldLines, newLines)])

\* A piece of the unified text: a format and what fills it.
Piece(fmt, path, r1, r2, line) ==
    [fmt |-> fmt, path |-> path, r1 |-> r1, r2 |-> r2, line |-> line]

\* formatRangeUnified: "beginning" for one line, else "beginning,length".
formatRangeUnified(start, stop) ==
    LET length == stop - start
    IN  IF length = 1 THEN <<start + 1>>
        ELSE IF length = 0 THEN <<start, length>>
        ELSE <<start + 1, length>>

\* The loop of GetGroupedOpCodes: a group ends where more than 2n lines are
\* unchanged.
RECURSIVE GroupLoop(_, _, _, _)
GroupLoop(codes, group, groups, n) ==
    IF codes = <<>>
      THEN IF Len(group) > 0 /\ ~(Len(group) = 1 /\ group[1].Tag = "e")
             THEN Append(groups, group) ELSE groups
    ELSE LET c == Head(codes)
         IN  IF c.Tag = "e" /\ c.I2 - c.I1 > n + n
               THEN GroupLoop(Tail(codes),
                        <<OpCode("e", Max(c.I1, c.I2 - n), c.I2, Max(c.J1, c.J2 - n), c.J2)>>,
                        Append(groups, Append(group,
                            OpCode("e", c.I1, Min(c.I2, c.I1 + n), c.J1, Min(c.J2, c.J1 + n)))),
                        n)
               ELSE GroupLoop(Tail(codes), Append(group, c), groups, n)

GetGroupedOpCodes(opcodes, n) ==
    LET c0 == IF opcodes = <<>> THEN <<OpCode("e", 0, 1, 0, 1)>> ELSE opcodes
        f == c0[1]
        c1 == IF f.Tag = "e"
                THEN [c0 EXCEPT ![1] =
                         OpCode("e", Max(f.I1, f.I2 - n), f.I2, Max(f.J1, f.J2 - n), f.J2)]
                ELSE c0
        l == c1[Len(c1)]
        c2 == IF l.Tag = "e"
                THEN [c1 EXCEPT ![Len(c1)] =
                         OpCode("e", l.I1, Min(l.I2, l.I1 + n), l.J1, Min(l.J2, l.J1 + n))]
                ELSE c1
    IN  GroupLoop(c2, <<>>, <<>>, n)

\* A unified text that looks at the number of lines only.
GetUnifiedDiffString_HeaderOnly(a, b, fromFile, toFile) ==
    IF Len(a) = Len(b) THEN <<>>
    ELSE <<Piece("--- %s\n", fromFile, <<>>, <<>>, <<>>),
           Piece("+++ %s\n", toFile, <<>>, <<>>, <<>>)>>

\* difflib.GetUnifiedDiffString: nothing when no group has a change, else
\* the two header lines and one hunk per group.
GetUnifiedDiffString(a, b, fromFile, toFile) ==
    LET groups == GetGroupedOpCodes(GetOpCodes(a, b), Context)
        Lines(c) ==
            IF c.Tag = "e"
              THEN [n \in 1..(c.I2 - c.I1) |-> Piece(" %s", "", <<>>, <<>>, a[c.I1 + n])]
            ELSE (IF c.Tag \in {"r", "d"}
                    THEN [n \in 1..(c.I2 - c.I1) |-> Piece("-%s", "", <<>>, <<>>, a[c.I1 + n])]
                    ELSE <<>>)
                 \o (IF c.Tag \in {"r", "i"}
                       THEN [n \in 1..(c.J2 - c.J1) |-> Piece("+%s", "", <<>>, <<>>, b[c.J1 + n])]
                       ELSE <<>>)
        Hunk(g) ==
            <<Piece("@@ -%s +%s @@\n", "",
                    formatRangeUnified(g[1].I1, g[Len(g)].I2),
                    formatRangeUnified(g[1].J1, g[Len(g)].J2), <<>>)>>
            \o Concat([n \in 1..Len(g) |-> Lines(g[n])])
        header == IF fromFile # "" \/ toFile # ""
                    THEN <<Piece("--- %s\n", fromFile, <<>>, <<>>, <<>>),
                           Piece("+++ %s\n", toFile, <<>>, <<>>, <<>>)>>
                    ELSE <<>>
    IN  IF groups = <<>> THEN <<>>
        ELSE header \o Concat([n \in 1..Len(groups) |-> Hunk(groups[n])])

\* result := &Result{Path: newState.Path, ..., Lines: make([]DiffLine, 0)}
NewResult(newState) ==
    [path |-> newState.path, unified |-> <<>>, lines |-> <<>>, hasDiff |-> FALSE,
     isNew |-> FALSE, isDeleted |-> FALSE, isBinary |-> FALSE]

\* The loops that turn the lines of a deleted or created file into DiffLines.
DeletedLines_FromZero(oldLines) ==
    [i \in 1..Len(oldLines) |-> DiffLine("Deleted", i - 1, 0, oldLines[i])]
DeletedLines(oldLines) ==
    [i \in 1..Len(oldLines) |-> DiffLine("Deleted", i, 0, oldLines[i])]
AddedLines_OldNumbers(newLines) ==
    [i \in 1..Len(newLines) |-> DiffLine("Added", i, 0, newLines[i])]
AddedLines(newLines) ==
    [i \in 1..Len(newLines) |-> DiffLine("Added", 0, i, newLines[i])]

\* if !newState.Exists && oldState.Exists
IsDeletion(oldState, newState) == ~newState.exists /\ oldState.exists

\* if newState.Exists && !oldState.Exists
IsCreation_NewExists(oldState, newState) == newState.exists
IsCreation(oldState, newState) == newState.exists /\ ~oldState.exists

\* Compute: the file was deleted.
DeletionResult_NoReturn(oldState, newState) ==
    [NewResult(newState) EXCEPT
        !.hasDiff = TRUE, !.isDeleted = TRUE,
        !.isBinary = isBinary(oldState.content),
        !.unified = <<Piece("--- %s\n+++ (deleted)\n", oldState.path, <<>>, <<>>, <<>>)>>,
        !.lines = DeletedLines(Split(oldState.content))]
DeletionResult(oldState, newState) ==
    IF isBinary(oldState.content)
      THEN [NewResult(newState) EXCEPT
               !.hasDiff = TRUE, !.isDeleted = TRUE, !.isBinary = TRUE,
               !.unified = <<Piece("Binary file %s deleted\n", oldState.path,
                                   <<>>, <<>>, <<>>)>>]
      ELSE [NewResult(newState) EXCEPT
               !.hasDiff = TRUE, !.isDeleted = TRUE,
               !.unified = <<Piece("--- %s\n+++ (deleted)\n", oldState.path,
                                   <<>>, <<>>, <<>>)>>,
               !.lines = DeletedLines(Split(oldState.content))]

\* Compute: the file was created.
CreationResult_NoHasDiff(oldState, newState) ==
    [NewResult(newState) EXCEPT
        !.isNew = TRUE,
        !.unified = <<Piece("--- (new file)\n+++ %s\n", newState.path, <<>>, <<>>, <<>>)>>,
        !.lines = IF isBinary(newState.content) THEN <<>>
                  ELSE AddedLines(Split(newState.content)),
        !.isBinary = isBinary(newState.content)]
CreationResult(oldState, newState) ==
    IF isBinary(newState.content)
      THEN [NewResult(newState) EXCEPT
               !.hasDiff = TRUE, !.isNew = TRUE, !.isBinary = TRUE,
               !.unified = <<Piece("Binary file %s created\n", newState.path,
                                   <<>>, <<>>, <<>>)>>]
      ELSE [NewResult(newState) EXCEPT
               !.hasDiff = TRUE, !.isNew = TRUE,
               !.unified = <<Piece("--- (new file)\n+++ %s\n", newState.path,
                                   <<>>, <<>>, <<>>)>>,
               !.lines = AddedLines(Split(newState.content))]

\* The format of the unified text when one of the two contents is binary,
\* with the test of the new content moved to the front.
BinaryTransition_NewFirst(oldIsBinary, newIsBinary) ==
    IF newIsBinary THEN "File %s changed from text to binary\n"
    ELSE IF oldIsBinary /\ newIsBinary THEN "Binary file %s modified\n"
    ELSE "File %s changed from binary to text\n"

\* The format of the unified text when one of the two contents is binary
\* (lines 122-128).
BinaryTransition(oldIsBinary, newIsBinary) ==
    IF oldIsBinary /\ newIsBinary THEN "Binary file %s modified\n"
    ELSE IF newIsBinary THEN "File %s changed from text to binary\n"
    ELSE "File %s changed from binary to text\n"

\* Compute: both states exist.
ModificationResult(oldState, newState) ==
    LET oldIsBinary == isBinary(oldState.content)
        newIsBinary == isBinary(newState.content)
        oldLines == Split(oldState.content)
        newLines == Split(newState.content)
        unified == GetUnifiedDiffString(oldLines, newLines, oldState.path, newState.path)
    IN  IF oldIsBinary \/ newIsBinary
          THEN [NewResult(newState) EXCEPT
                   !.isBinary = TRUE, !.hasDiff = TRUE,
                   !.unified =
                       <<Piece(BinaryTransition(oldIsBinary, newIsBinary),
                               newState.path, <<>>, <<>>, <<>>)>>]
          ELSE [NewResult(newState) EXCEPT
                   !.unified = unified,
                   !.hasDiff = Len(unified) > 0,
                   !.lines = computeStructuredDiff(oldLines, newLines)]

Compute(oldState, newState) ==
    IF IsDeletion(oldState, newState) THEN DeletionResult(oldState, newState)
    ELSE IF IsCreation(oldState, newState) THEN CreationResult(oldState, newState)
    ELSE IF oldState.exists /\ newState.exists THEN ModificationResult(oldState, newState)
    ELSE NewResult(newState)

\* The texts given to Compute: up to MaxLines lines joined by LF, lines of
\* the old text being "a", "b", "c" and of the new text "a", "x", "c".
RECURSIVE Join(_)
Join(ls) ==
    IF Len(ls) = 1 THEN ls[1] ELSE ls[1] \o <<LF>> \o Join(Tail(ls))

OldLineAlphabet == {<<97>>, <<98>>, <<99>>}
NewLineAlphabet == {<<97>>, <<120>>, <<99>>}
Texts(alphabet) == {Join(ls) : ls \in UNION {[1..k -> alphabet] : k \in 1..MaxLines}}

\* Contents of other shapes: empty, ending in LF, a lone LF, with a null
\* byte, with control bytes below and above the threshold.
SpecialContents ==
    {<<>>, <<97, 10>>, <<10>>, <<0>>, <<97, 0, 10, 98>>, <<1, 97, 10, 98>>,
     <<127, 97>>, <<1>>}

DiffStates(alphabet) ==
    {[path |-> "p", content |-> c, exists |-> TRUE] :
        c \in Texts(alphabet) \cup SpecialContents}
    \cup {[path |-> "p", content |-> c, exists |-> FALSE] : c \in {Nil, <<97>>}}

\* A call of Compute.
ComputeCall ==
    /\ dOld # <<>>
    /\ dRes = <<>>
    /\ dRes' = <<Compute(dOld, dNew)>>
    /\ UNCHANGED <<dOld, dNew, bIn, bOut, opIn, opOut, notDiff>>

InitDiff ==
    /\ dOld \in DiffStates(OldLineAlphabet)
    /\ dNew \in DiffStates(NewLineAlphabet)
    /\ dRes = <<>>
    /\ bIn = <<>> /\ bOut = <<>>
    /\ OpOff
    /\ NewDebouncer
    /\ apc = <<>> /\ spc = NoStop /\ nAdds = 0 /\ invoked = <<>>
    /\ WatchOff
    /\ UiOff
    /\ StoreOff

NextDiff == ComputeCall

SpecDiff == InitDiff /\ [][NextDiff]_vars

-----------------------------------------------------------------------------
(***************************************************************************)
(* isBinary on its own, over contents that are shorter than, as long as    *)
(* and longer than the sample of CheckSize bytes.                          *)
(***************************************************************************)

\* A null byte, a control byte, a printable byte and a byte above 127.
BinAlphabet == {0, 1, 97, 200}
FillerRun(n) == [i \in 1..n |-> 97]

BytesUpTo(n) == UNION {[1..k -> BinAlphabet] : k \in 0..n}

\* The contents given to isBinary: a few bytes, a run of the printable
\* filler that is short or brings the length to about CheckSize, and at
\* most two bytes after it.
FillLengths == (0..MaxFill) \cup ((CheckSize - MaxPre)..CheckSize)
BinContents ==
    {pre \o FillerRun(n) \o post :
        pre \in BytesUpTo(MaxPre), n \in FillLengths, post \in BytesUpTo(2)}

\* A call of isBinary.
IsBinaryCall ==
    /\ bOut = <<>>
    /\ bOut' = <<isBinary(bIn)>>
    /\ UNCHANGED <<dOld, dNew, dRes, bIn, opIn, opOut, notDiff>>

InitBin ==
    /\ bIn \in BinContents
    /\ bOut = <<>>
    /\ dOld = <<>> /\ dNew = <<>> /\ dRes = <<>>
    /\ OpOff
    /\ NewDebouncer
    /\ apc = <<>> /\ spc = NoStop /\ nAdds = 0 /\ invoked = <<>>
    /\ WatchOff
    /\ UiOff
    /\ StoreOff

NextBin == IsBinaryCall

SpecBin == InitBin /\ [][NextBin]_vars

-----------------------------------------------------------------------------
(***************************************************************************)
(* A non-recursive watcher: New(path, false) subscribes the root only      *)
(* (part_002:99-104); directories come and go below it.                    *)
(***************************************************************************)

\* The state New(path, false) leaves behind: the root subscribed, nothing
\* recorded in fw.watchedDirs, no walk started, the watch goroutine at its
\* select.
InitFlat ==
    /\ NewDebouncer
    /\ DebOff
    /\ Constructed
    /\ recursive = FALSE
    /\ \E r \in RootNames : watchPath = <<r>>
    /\ \E t \in InitTrees(watchPath) : fsDirs = {watchPath} \cup t
    /\ denied = {}
    /\ nFsOps = 0
    /\ dynCreated = {}
    /\ osWatches = {watchPath}
    /\ watchedDirs = {}
    /\ walks = <<>>
    /\ notifs = <<>> /\ osErrs = 0 /\ nNotifs = 0
    /\ wpc = [pc |-> "select"]
    /\ fmuW = Free /\ fmuR = {}
    /\ closed = FALSE
    /\ events = [buf |-> <<>>, closes |-> 0]
    /\ errors = [buf |-> <<>>, closes |-> 0]
    /\ osClosed = 0
    /\ cpc = [c \in Closers |-> "idle"]
    /\ closeRets = {}
    /\ sentOnClosed = FALSE
    /\ dropped = <<>>
    /\ delivered = <<>>

NextFlat ==
    \/ \E p \in TreePaths(watchPath) : Mkdir(p)
    \/ \E p \in TreePaths(watchPath) : Rmdir(p)
    \/ WatchRecvEvent
    \/ WatchAddLock
    \/ WatchAddBody

SpecFlat == InitFlat /\ [][NextFlat]_vars

-----------------------------------------------------------------------------
(***************************************************************************)
(* opToString on its own, over every operation code of OpBits bits: the    *)
(* five bits fsnotify defines and the bits above them.                     *)
(***************************************************************************)

OpCodes == 0..(2 ^ OpBits - 1)

\* A call of opToString.
OpToStringCall ==
    /\ opOut = <<>>
    /\ opOut' = <<opToString(opIn)>>
    /\ UNCHANGED <<dOld, dNew, dRes, bIn, bOut, opIn, notDiff>>

InitOp ==
    /\ opIn \in OpCodes
    /\ opOut = <<>>
    /\ dOld = <<>> /\ dNew = <<>> /\ dRes = <<>>
    /\ bIn = <<>> /\ bOut = <<>>
    /\ NewDebouncer
    /\ apc = <<>> /\ spc = NoStop /\ nAdds = 0 /\ invoked = <<>>
    /\ WatchOff
    /\ UiOff
    /\ StoreOff

NextOp == OpToStringCall

SpecOp == InitOp /\ [][NextOp]_vars

-----------------------------------------------------------------------------
(***************************************************************************)
(* Subtree walks that meet errors: a directory below the root cannot be    *)
(* read, directories disappear under a walk, and the error channel is      *)
(* empty or already full when a walk reports.                              *)
(***************************************************************************)

\* New(path, true) as in InitWalk, with an unreadable directory below the
\* root and a consumer that has or has not kept up with the error channel.
InitErr ==
    /\ NewDebouncer
    /\ DebOff
    /\ Constructed
    /\ recursive = TRUE
    /\ watchPath = <<"proj">>
    /\ \E t \in InitTrees(watchPath) : fsDirs = {watchPath} \cup t
    /\ denied \in {{watchPath \o <<"a">>}, {watchPath \o <<"a", "a">>}}
    /\ nFsOps = 0
    /\ dynCreated = {}
    /\ osWatches = {watchPath}
    /\ watchedDirs = {watchPath}
    /\ walks = <<NewWalk(watchPath)>>
    /\ notifs = <<>> /\ osErrs = 0 /\ nNotifs = 0
    /\ wpc = [pc |-> "select"]
    /\ fmuW = Free /\ fmuR = {}
    /\ closed = FALSE
    /\ events = [buf |-> <<>>, closes |-> 0]
    /\ \E nr \in {0, ErrCap} :
          errors = [buf |-> [n \in 1..nr |-> "watch"], closes |-> 0]
    /\ osClosed = 0
    /\ cpc = [c \in Closers |-> "idle"]
    /\ closeRets = {}
    /\ sentOnClosed = FALSE
    /\ dropped = <<>>
    /\ delivered = <<>>

NextErr == NextWalk

SpecErr == InitErr /\ [][NextErr]_vars

-----------------------------------------------------------------------------
(***************************************************************************)
(* New (part_002:59-107) step by step: each call that can fail succeeds or *)
(* fails, and a watcher that was constructed goes on running.              *)
(***************************************************************************)

\* What New leaves alone at every step.
NewFrame ==
    UNCHANGED <<debVars, recursive, watchPath, osVars, lockVars, closed, cpc,
                closeRets, chanVars, fsVars, procVars, storeVars, diffVars, uiVars>>

\* Lines 60-63: fsnotify.NewWatcher(); on error New returns it, and there
\* is no OS watcher.
NewWatcher(ok) ==
    /\ npc.pc = "start"
    /\ npc' = IF ok THEN [npc EXCEPT !.pc = "abs"]
                    ELSE [pc |-> "failed", err |-> "watcher"]
    /\ UNCHANGED <<osClosed, wpc, walks, subVars>>
    /\ NewFrame

\* Lines 66-70: filepath.Abs(path); on error watcher.Close() and return.
NewAbs(ok) ==
    /\ npc.pc = "abs"
    /\ npc' = IF ok THEN [npc EXCEPT !.pc = "spawn"]
                    ELSE [pc |-> "failed", err |-> "abs"]
    /\ osClosed' = IF ok THEN osClosed ELSE osClosed + 1
    /\ UNCHANGED <<wpc, walks, subVars>>
    /\ NewFrame

\* Lines 72-82: the FileWatcher value, and `go fw.watch()`.
NewSpawn ==
    /\ npc.pc = "spawn"
    /\ npc' = [npc EXCEPT !.pc = "add"]
    /\ wpc' = [pc |-> "select"]
    /\ UNCHANGED <<osClosed, walks, subVars>>
    /\ NewFrame

\* The failure branch of NewAdd without its watcher.Close().
NewAddFails_NoRelease ==
    /\ npc' = [pc |-> "failed", err |-> "add"]
    /\ UNCHANGED <<osClosed, walks, subVars>>

\* Lines 87-90 and 100-103: watcher.Add(absPath) failed: watcher.Close()
\* and return nil and the error.
NewAddFails ==
    /\ npc' = [pc |-> "failed", err |-> "add"]
    /\ osClosed' = osClosed + 1
    /\ UNCHANGED <<walks, subVars>>

\* Lines 85-106: watcher.Add(absPath); in recursive mode the root is stored
\* in fw.watchedDirs and the initial walk is started; return fw.
NewAdd(ok) ==
    /\ npc.pc = "add"
    /\ IF ok
       THEN /\ npc' = [npc EXCEPT !.pc = "done"]
            /\ osWatches' = {watchPath}
            /\ watchedDirs' = IF recursive THEN {watchPath} ELSE watchedDirs
            /\ walks' = IF recursive THEN <<NewWalk(watchPath)>> ELSE walks
            /\ UNCHANGED osClosed
       ELSE NewAddFails
    /\ UNCHANGED wpc
    /\ NewFrame

\* The caller is about to call New(path, recursive) on an existing, empty
\* directory.
InitNew ==
    /\ NewDebouncer
    /\ DebOff
    /\ npc = [pc |-> "start", err |-> "none"]
    /\ recursive \in BOOLEAN
    /\ watchPath = <<"proj">>
    /\ fsDirs = {watchPath}
    /\ denied = {}
    /\ nFsOps = 0
    /\ dynCreated = {}
    /\ osWatches = {}
    /\ watchedDirs = {}
    /\ walks = <<>>
    /\ notifs = <<>> /\ osErrs = 0 /\ nNotifs = 0
    /\ wpc = [pc |-> "off"]
    /\ fmuW = Free /\ fmuR = {}
    /\ closed = FALSE
    /\ events = [buf |-> <<>>, closes |-> 0]
    /\ errors = [buf |-> <<>>, closes |-> 0]
    /\ osClosed = 0
    /\ cpc = [c \in Closers |-> "idle"]
    /\ closeRets = {}
    /\ sentOnClosed = FALSE
    /\ dropped = <<>>
    /\ delivered = <<>>

NextNew ==
    \/ \E ok \in BOOLEAN : NewWatcher(ok)
    \/ \E ok \in BOOLEAN : NewAbs(ok)
    \/ NewSpawn
    \/ \E ok \in BOOLEAN : NewAdd(ok)
    \/ WatchExit
    \/ NextWalk

SpecNew == InitNew /\ [][NextNew]_vars

\* The Go scheduler runs the watch goroutine: a receive from a closed
\* channel is always ready.
SpecNewLive == InitNew /\ [][NextNew]_vars /\ WF_vars(WatchExit)

-----------------------------------------------------------------------------
(***************************************************************************)
(* The UI Model: bubbletea hands one message at a time to Update.  Events  *)
(* are parked in pendingEvents and processed by the coalescing tick, which *)
(* runs handleFileEvent on the snapshot store and the diff engine.  Time   *)
(* is kept as ages: what os.Stat and os.ReadFile find are inputs of the    *)
(* call, chosen when it is made.                                           *)
(***************************************************************************)

MaxEvents == 2           \* events the UI receives
ProcessThreshold == 200  \* processThreshold, in ms
TickPeriod == 250        \* the period of the coalescing tick, in ms
Throttle == 500          \* the window of the event log, in ms
MaxLog == 5              \* entries kept in m.events
maxDiffSize == 1048576   \* 1 * 1024 * 1024

\* The step of the clock: ages and delays are multiples of it.
Quantum == ProcessThreshold \div 4

UiOps == {"write", "remove"}

\* The paths of the events: the second one holds the first, and holds the
\* words handleFileEvent looks for in m.err.
UiPaths == {"a", "a file too large"}

\* The characters of the strings that make up the texts of the model.
Chars(s) ==
    CASE s = "a" ->
            <<"a">>
      [] s = "a file too large" ->
            <<"a", " ", "f", "i", "l", "e", " ", "t", "o", "o", " ", "l",
              "a", "r", "g", "e">>
      [] s = "write" ->
            <<"w", "r", "i", "t", "e">>
      [] s = "remove" ->
            <<"r", "e", "m", "o", "v", "e">>
      [] s = "file too large" ->
            <<"f", "i", "l", "e", " ", "t", "o", "o", " ", "l", "a", "r",
              "g", "e">>
      [] s = "file not found: " ->
            <<"f", "i", "l", "e", " ", "n", "o", "t", " ", "f", "o", "u",
              "n", "d", ":", " ">>
      [] s = "file too large for diff (" ->
            <<"f", "i", "l", "e", " ", "t", "o", "o", " ", "l", "a", "r",
              "g", "e", " ", "f", "o", "r", " ", "d", "i", "f", "f", " ",
              "(">>
      [] s = " bytes, max " ->
            <<" ", "b", "y", "t", "e", "s", ",", " ", "m", "a", "x", " ">>
      [] s = " bytes)" ->
            <<" ", "b", "y", "t", "e", "s", ")">>
      [] s = "reading file: open " ->
            <<"r", "e", "a", "d", "i", "n", "g", " ", "f", "i", "l", "e",
              ":", " ", "o", "p", "e", "n", " ">>
      [] s = ": permission denied" ->
            <<":", " ", "p", "e", "r", "m", "i", "s", "s", "i", "o", "n",
              " ", "d", "e", "n", "i", "e", "d">>
      [] s = "adding new directory to watcher: lstat " ->
            <<"a", "d", "d", "i", "n", "g", " ", "n", "e", "w", " ", "d",
              "i", "r", "e", "c", "t", "o", "r", "y", " ", "t", "o", " ",
              "w", "a", "t", "c", "h", "e", "r", ":", " ", "l", "s", "t",
              "a", "t", " ">>
      [] s = ": no such file or directory" ->
            <<":", " ", "n", "o", " ", "s", "u", "c", "h", " ", "f", "i",
              "l", "e", " ", "o", "r", " ", "d", "i", "r", "e", "c", "t",
              "o", "r", "y">>
      [] s = "00:00:0" ->
            <<"0", "0", ":", "0", "0", ":", "0">>
      [] s = "[" ->
            <<"[">>
      [] s = "] " ->
            <<"]", " ">>
      [] s = ": " ->
            <<":", " ">>

\* strconv of a natural number, as %d prints it.
RECURSIVE Digits(_)
Digits(n) ==
    LET d == <<"0", "1", "2", "3", "4", "5", "6", "7", "8", "9">>[(n % 10) + 1]
    IN  IF n < 10 THEN <<d>> ELSE Append(Digits(n \div 10), d)

\* strings.Contains(text, sub)
Contains(text, sub) ==
    \E i \in 0..(Len(text) - Len(sub)) : SubSeq(text, i + 1, i + Len(sub)) = sub

\* fmt.Sprintf("[%s] %s: %s", event.Timestamp.Format("15:04:05"), event.Op,
\* event.Path): the time of day is eight digits and colons, told apart here
\* by the ordinal of the event.
EventStr(event) ==
    Chars("[") \o Chars("00:00:0") \o Digits(event.seq) \o Chars("] ")
        \o Chars(event.op) \o Chars(": ") \o Chars(event.path)

\* fmt.Errorf("file not found: %s", event.Path)
ErrNotFound(path) == Chars("file not found: ") \o Chars(path)

\* fmt.Errorf("file too large for diff (%d bytes, max %d bytes)", ...)
ErrTooLarge(size) ==
    Chars("file too large for diff (") \o Digits(size) \o Chars(" bytes, max ")
        \o Digits(maxDiffSize) \o Chars(" bytes)")

\* fmt.Errorf("reading file: %w", err) of Update, err being what os.ReadFile
\* returns for a file that cannot be read.
ErrReading(path) ==
    Chars("reading file: open ") \o Chars(path) \o Chars(": permission denied")

\* An error of the watcher: the walk of a new directory that is gone
\* (part_002:206).
ErrWatcher(path) ==
    Chars("adding new directory to watcher: lstat ") \o Chars(path)
        \o Chars(": no such file or directory")

\* What os.Stat can return: an error saying the file does not exist,
\* another error, a directory, or a regular file of some size.
FileSizes == {1, maxDiffSize, maxDiffSize + 1}
StatResults ==
    {[kind |-> k, size |-> 0] : k \in {"notexist", "error", "dir"}}
        \cup {[kind |-> "file", size |-> n] : n \in FileSizes}

\* now.Sub(update.timestamp) >= processThreshold, without the test.
Due_Always(update) == TRUE

\* now.Sub(update.timestamp) >= processThreshold
Due(update) == update.age >= ProcessThreshold

\* info.Size() > maxDiffSize, without the test.
TooLarge_Never(info) == FALSE

\* info.Size() > maxDiffSize
TooLarge(info) == info.size > maxDiffSize

\* handleFileEvent reaches m.stateManager.Update: at once for a remove
\* event, else after os.Stat found a regular file that is not too large.
ReachesUpdate(event, info) ==
    \/ event.op = "remove"
    \/ info.kind = "file" /\ ~TooLarge(info)

\* handleFileEvent takes the branch of a file too large for a diff.
Gated(event, info) ==
    event.op # "remove" /\ info.kind = "file" /\ TooLarge(info)

\* &diff.Result{Path: event.Path, HasDiff: true, IsBinary: false,
\*              Lines: []diff.DiffLine{}}
Placeholder(path) ==
    [path |-> path, unified |-> <<>>, lines |-> <<>>, hasDiff |-> TRUE,
     isNew |-> FALSE, isDeleted |-> FALSE, isBinary |-> FALSE]

\* The head of handleFileEvent: the line of the event is appended to
\* m.events, of which the last MaxLog lines are kept, unless the text of the
\* last line contains the path of the event and was added less than
\* Throttle ago.
LogEvent(event) ==
    LET n == Len(uevents.log)
        shouldAddToLog ==
            ~(/\ n > 0
              /\ Contains(uevents.log[n], Chars(event.path))
              /\ uevents.since < Throttle)
        added == Append(uevents.log, EventStr(event))
    IN  IF shouldAddToLog
        THEN [log |-> IF Len(added) > MaxLog THEN Tail(added) ELSE added, since |-> 0]
        ELSE uevents

\* m.err after handleFileEvent returned without calling Update.
ErrNoUpdate(event, info) ==
    IF event.op = "remove" THEN uerr
    ELSE IF info.kind = "notexist" THEN ErrNotFound(event.path)
    ELSE IF Gated(event, info) THEN ErrTooLarge(info.size)
    ELSE uerr

\* m.err before Update is called: on the way of a non-remove event an
\* error whose text contains "file too large" is cleared, whatever its
\* origin.
ErrCleared(event) ==
    IF event.op # "remove" /\ uerr # <<>> /\ Contains(uerr, Chars("file too large"))
    THEN <<>> ELSE uerr

\* handleFileEvent(event), os.Stat returning info and os.ReadFile inside
\* Update finding found.
handleFileEvent(event, info, found) ==
    LET path == event.path
        old == OldState(path)
        new == NewState(path, found, nAlloc + 1)
        failed == ReadFails(found)
        result == Compute(old, new)
    IN  /\ uevents' = LogEvent(event)
        /\ IF ReachesUpdate(event, info)
           THEN /\ nAlloc' = nAlloc + 1
                /\ states' = IF failed THEN states ELSE StoreEntry(path, new)
                /\ tracked' = IF failed THEN tracked ELSE tracked \cup {path}
                /\ IF failed
                   THEN /\ uerr' = ErrReading(path)
                        /\ UNCHANGED <<curDiff, dOld, dNew, dRes>>
                   ELSE /\ dOld' = old /\ dNew' = new /\ dRes' = <<result>>
                        /\ curDiff' = IF result.hasDiff THEN <<result>> ELSE curDiff
                        /\ uerr' = ErrCleared(event)
           ELSE /\ UNCHANGED <<nAlloc, states, tracked, dOld, dNew, dRes>>
                /\ curDiff' = IF Gated(event, info) THEN <<Placeholder(path)>>
                              ELSE curDiff
                /\ uerr' = ErrNoUpdate(event, info)
        /\ ulog' = Append(ulog, [seq |-> event.seq, age |-> pending[path].age,
                                 latest |-> urecv.last[path]])
        /\ UNCHANGED <<smu, upc, nStoreOps, slog, bIn, bOut, opIn, opOut>>

\* Update, case fileEventMsg: the event takes the place of the pending one
\* of its path, with time.Now() as its timestamp.
RecvEvent(p, op) ==
    LET event == [seq |-> urecv.n + 1, op |-> op, path |-> p]
    IN  /\ tick.pc = "idle"
        /\ urecv.n < MaxEvents
        /\ pending' = [q \in DOMAIN pending \cup {p} |->
                         IF q = p THEN [event |-> event, age |-> 0] ELSE pending[q]]
        /\ urecv' = [n |-> urecv.n + 1,
                     last |-> [q \in DOMAIN urecv.last \cup {p} |->
                                 IF q = p THEN urecv.n + 1 ELSE urecv.last[q]]]
        /\ UNCHANGED <<curDiff, uerr, uevents, tick, ulog, storeVars, diffVars, notUi>>

\* Update, case errMsg: m.err = msg, an error of the watcher about path p.
RecvErr(p) ==
    /\ tick.pc = "idle"
    /\ uerr' = ErrWatcher(p)
    /\ UNCHANGED <<pending, curDiff, uevents, tick, urecv, ulog, storeVars, diffVars,
                   notUi>>

\* Time passes between two messages.
Advance ==
    /\ tick.pc = "idle"
    /\ pending' = [q \in DOMAIN pending |->
                     [pending[q] EXCEPT !.age = Min(@ + Quantum, ProcessThreshold)]]
    /\ uevents' = [uevents EXCEPT !.since = Min(@ + Quantum, Throttle)]
    /\ tick' = [tick EXCEPT !.until = Max(@ - Quantum, 0)]
    /\ UNCHANGED <<curDiff, uerr, urecv, ulog, storeVars, diffVars, notUi>>

\* Update, case processCoalescedMsg, once the tick is due: now := time.Now()
\* and the range over m.pendingEvents begins.
TickStart ==
    /\ tick.pc = "idle"
    /\ tick.until = 0
    /\ tick' = [tick EXCEPT !.pc = "range", !.todo = DOMAIN pending]
    /\ UNCHANGED <<pending, curDiff, uerr, uevents, urecv, ulog, storeVars, diffVars,
                   notUi>>

\* One turn of the range, which visits the entries in any order: an entry
\* that is due is handled and deleted.
TickVisit(p, info, found) ==
    /\ tick.pc = "range"
    /\ p \in tick.todo
    /\ tick' = [tick EXCEPT !.todo = @ \ {p}]
    /\ IF Due(pending[p])
       THEN /\ handleFileEvent(pending[p].event, info, found)
            /\ pending' = [q \in DOMAIN pending \ {p} |-> pending[q]]
       ELSE UNCHANGED <<pending, curDiff, uerr, uevents, ulog, storeVars, diffVars>>
    /\ UNCHANGED <<urecv, notUi>>

\* The end of the range: the next tick is scheduled.
TickEnd ==
    /\ tick.pc = "range"
    /\ tick.todo = {}
    /\ tick' = [pc |-> "idle", todo |-> {}, until |-> TickPeriod]
    /\ UNCHANGED <<pending, curDiff, uerr, uevents, urecv, ulog, storeVars, diffVars,
                   notUi>>

\* ui.New and Model.Init: an empty store, no pending event, no diff, and
\* the first tick scheduled.
InitUI ==
    /\ pending = EmptyMap /\ curDiff = <<>> /\ uerr = <<>>
    /\ uevents = [log |-> <<>>, since |-> Throttle]
    /\ tick = [pc |-> "idle", todo |-> {}, until |-> TickPeriod]
    /\ urecv = [n |-> 0, last |-> EmptyMap]
    /\ ulog = <<>>
    /\ StoreOff
    /\ DiffOff
    /\ NewDebouncer
    /\ apc = <<>> /\ spc = NoStop /\ nAdds = 0 /\ invoked = <<>>
    /\ WatchOff

NextUI ==
    \/ \E p \in UiPaths, op \in UiOps : RecvEvent(p, op)
    \/ \E p \in UiPaths : RecvErr(p)
    \/ Advance
    \/ TickStart
    \/ \E p \in UiPaths, info \in StatResults, found \in FileStates :
          TickVisit(p, info, found)
    \/ TickEnd

SpecUI == InitUI /\ [][NextUI]_vars

\* Time passes, and the bubbletea runtime delivers the tick it scheduled
\* and lets Update run to its end.
SpecUILive ==
    /\ InitUI /\ [][NextUI]_vars
    /\ WF_vars(Advance)
    /\ WF_vars(TickStart \/ TickEnd
                 \/ \E p \in UiPaths, info \in StatResults, found \in FileStates :
                       TickVisit(p, info, found))

-----------------------------------------------------------------------------
\* C1: for a key whose Add calls each found the previous timer of that key
\* still inside its delay window, and with no Stop, at most one callback is
\* ever invoked and an invoked callback is the one of the latest completed
\* Add: a superseded callback never runs.
C1_OnlyLastCallbackFires ==
    \A n \in 1..Len(invoked) :
        invoked[n].rapid =>
            /\ <<invoked[n].cb>> = invoked[n].last
            /\ \A m \in 1..Len(invoked) :
                  (invoked[m].key = invoked[n].key /\ invoked[m].rapid) => m = n

\* C2: for a path whose notifications each reached the Debouncer inside the
\* delay window of the previous one, at most one Event is placed on the
\* event channel and it is the Event of the latest notification handled: an
\* Event built from a superseded notification is never delivered.
C2_OnlyLastEventDelivered ==
    \A n \in 1..Len(delivered) :
        delivered[n].rapid =>
            /\ <<delivered[n].ev>> = delivered[n].last
            /\ \A m \in 1..Len(delivered) :
                  (delivered[m].ev.path = delivered[n].ev.path /\ delivered[m].rapid)
                      => m = n

\* C3: no value is ever sent on a closed channel; a goroutine standing at
\* the select of sendEvent or sendError holds the read lock of fw.mu, Close
\* holds the write lock from setting the flag until the channels are closed,
\* and the write lock excludes every reader.
C3_NoSendAfterClose ==
    /\ ~sentOnClosed
    /\ \A i \in 1..Len(tm) :
          tm[i].st = "select" =>
              <<"timer", i>> \in fmuR /\ events.closes = 0 /\ ~closed
    /\ \A g \in ErrSenders :
          ErrPc(g) = "err_select" => g \in fmuR /\ errors.closes = 0 /\ ~closed
    /\ \A c \in Closers : cpc[c] # "idle" => fmuW = <<"close", c>> /\ closed
    /\ fmuW # Free => fmuR = {}
    /\ (events.closes > 0 \/ errors.closes > 0) => closed

\* A callback fired after Close and returned without sending, after an
\* earlier event had been delivered, and the walk goroutine met the closed
\* flag too.
C3_Witness ==
    /\ events.closes = 1
    /\ Len(delivered) >= 1
    /\ \E i \in 1..Len(tm) :
          /\ tm[i].st = "done"
          /\ \A n \in 1..Len(delivered) : delivered[n].ev # tm[i].cb
    /\ walks[1].pc = "done" /\ errors.buf = <<>> /\ dropped = <<>>

\* C4: whatever the number of Close calls, the Debouncer is stopped once,
\* each channel is closed once and the OS watcher is released once, all by
\* the call that found the flag unset; every later call returns nil.
C4_CloseIdempotent ==
    /\ stopChan <= 1 /\ events.closes <= 1 /\ errors.closes <= 1 /\ osClosed <= 1
    /\ closeRets \subseteq {<<"first", "os">>, <<"later", "nil">>}
    /\ Cardinality({c \in Closers : cpc[c] # "idle"}) <= 1
    /\ osClosed = 1 => stopChan = 1 /\ events.closes = 1 /\ errors.closes = 1 /\ closed
    /\ <<"later", "nil">> \in closeRets => closed

\* Close has run to its end and a later call has returned nil.
C4_Witness ==
    /\ closeRets = {<<"first", "os">>, <<"later", "nil">>}
    /\ osClosed = 1 /\ stopChan = 1
    /\ \A c \in Closers : cpc[c] = "idle"

\* C5: a sendEvent that reaches its select while the event channel holds
\* EventCap values returns at once: the step is enabled, the event is dropped
\* and the channel is left as it was; likewise sendError on the error
\* channel holding ErrCap values.
C5_DropWhenFull ==
    /\ [](\A i \in 1..Len(tm) : tm[i].st = "select" => ENABLED sendEventSelect(i))
    /\ [](\A g \in ErrSenders : ErrPc(g) = "err_select" => ENABLED sendErrorSelect(g))
    /\ [][/\ \A i \in 1..Len(tm) :
               (tm[i].st = "select" /\ tm'[i].st = "done" /\ Len(events.buf) = EventCap)
                   => /\ events' = events
                      /\ dropped' = <<[ch |-> "events", v |-> <<tm[i].cb>>]>> \o dropped
                      /\ ~sentOnClosed'
           /\ \A g \in ErrSenders :
               (ErrPc(g) = "err_select" /\ ErrPc(g)' # "err_select"
                   /\ Len(errors.buf) = ErrCap)
                   => /\ errors' = errors
                      /\ dropped' = <<[ch |-> "errors", v |-> <<g[1]>>]>> \o dropped
                      /\ ~sentOnClosed']_vars

\* Both channels are full, an event and an error have been dropped, and the
\* watch goroutine is back at its select.
C5_Witness ==
    /\ Len(events.buf) = EventCap /\ Len(errors.buf) = ErrCap
    /\ \E n \in 1..Len(dropped) : dropped[n].ch = "events"
    /\ \E n \in 1..Len(dropped) : dropped[n].ch = "errors"
    /\ wpc.pc = "select"

\* A directory below the root that no walk may leave out: from position
\* `from` of its path on, no name is in skipDirs and no directory is
\* unreadable.
Eligible(d, from) ==
    \A k \in from..Len(d) : d[k] \notin skipDirs /\ SubSeq(d, 1, k) \notin denied

IsPrefix(c, d) == Len(c) <= Len(d) /\ SubSeq(d, 1, Len(c)) = c

\* Nothing is in flight: no notification waits, the watch goroutine is at
\* its select, every walk has returned and none has reported an error.
Quiescent ==
    /\ notifs = <<>>
    /\ wpc.pc = "select"
    /\ \A n \in 1..Len(walks) : walks[n].pc = "done"
    /\ errors.buf = <<>> /\ dropped = <<>>

\* C6: the root is subscribed and recorded when New returns, and once the
\* initial walk has finished with the tree unchanged, every directory of the
\* subtree that is neither excluded nor unreadable is subscribed and
\* recorded.
C6_InitialWalkSubscribesSubtree ==
    /\ nFsOps = 0 => watchPath \in osWatches /\ watchPath \in watchedDirs
    /\ (recursive /\ nFsOps = 0 /\ Len(walks) >= 1 /\ walks[1].pc = "done") =>
          \A d \in fsDirs :
              Eligible(d, Len(watchPath) + 1) => d \in osWatches /\ d \in watchedDirs

\* C7: once nothing is in flight, every directory created under a watched
\* directory with a name that is not excluded is subscribed, and so is every
\* directory below it that is neither excluded nor unreadable.
C7_CreatedDirsSubscribed ==
    Quiescent =>
        \A c \in dynCreated : \A d \in fsDirs :
            (IsPrefix(c, d) /\ Eligible(d, Len(c))) => d \in osWatches

\* C8 as stated: no walk subscribes or records a directory that has a name
\* of skipDirs anywhere in its path, and no walk is started for a created
\* directory with such a name.
C8_NoExcludedAnywhere ==
    /\ \A d \in (osWatches \cup watchedDirs) \ {watchPath} :
          \A k \in 1..Len(d) : d[k] \notin skipDirs
    /\ \A n \in 2..Len(walks) : walks[n].root[Len(walks[n].root)] \notin skipDirs

\* C8 amended: no walk subscribes or records a directory whose path has a
\* name of skipDirs below the watch root, and no walk is started for a
\* created directory with such a name.
C8_NoExcludedBelowRoot ==
    /\ \A d \in (osWatches \cup watchedDirs) \ {watchPath} :
          \A k \in (Len(watchPath) + 1)..Len(d) : d[k] \notin skipDirs
    /\ \A n \in 1..Len(walks) :
          walks[n].pc = "add" => walks[n].cur[Len(walks[n].cur)] \notin skipDirs
    /\ \A n \in 2..Len(walks) : walks[n].root[Len(walks[n].root)] \notin skipDirs

\* A walk started for a new directory has subscribed it and left out an
\* excluded directory inside it, and the creation of an excluded directory
\* under the root has been handled without starting a walk.
C8_Witness ==
    /\ Quiescent
    /\ \E n \in 2..Len(walks) :
          /\ walks[n].skipped # {}
          /\ walks[n].root \in osWatches
    /\ \E d \in dynCreated :
          /\ Parent(d) = watchPath /\ Base(d) \in skipDirs
          /\ \A n \in 1..Len(walks) : walks[n].root # d

\* C9: an Update of a path that has no stored entry (never updated with
\* success, or dropped by Remove or Clear since) returns as old the
\* snapshot of the given path with exists false and no content; a Remove
\* drops the entry of its path and leaves every other entry as it was.
C9_OldOfUnseenPath ==
    \A n \in 1..Len(slog) :
        /\ (slog[n].op = "update" /\ ~slog[n].had) =>
              /\ slog[n].old.exists = FALSE
              /\ slog[n].old.path = slog[n].path
              /\ slog[n].old.content = Nil
        /\ slog[n].op = "remove" =>
              /\ slog[n].path \notin DOMAIN slog[n].after
              /\ DOMAIN slog[n].after = DOMAIN slog[n].before \ {slog[n].path}
              /\ \A q \in DOMAIN slog[n].after : slog[n].after[q] = slog[n].before[q]

\* A path was updated, removed and updated again, returning the synthesized
\* old snapshot, while the entry of another path outlived the Remove.
C9_Witness ==
    \E i, j, k \in 1..Len(slog) :
        /\ i < j /\ j < k
        /\ slog[i].op = "update" /\ ~slog[i].err /\ slog[i].new.exists
        /\ slog[j].op = "remove" /\ slog[j].path = slog[i].path
        /\ DOMAIN slog[j].after # {} /\ slog[j].path \in DOMAIN slog[j].before
        /\ slog[k].op = "update" /\ slog[k].path = slog[i].path /\ ~slog[k].had

\* The successful Updates of path p in the log, in the order they returned,
\* cut at the last Remove of p or Clear.
Chain(p) ==
    LET cuts == {n \in 1..Len(slog) :
                    slog[n].op = "clear" \/ (slog[n].op = "remove" /\ slog[n].path = p)}
        from == IF cuts = {} THEN 0 ELSE CHOOSE n \in cuts : \A m \in cuts : m <= n
        Ok(e) == e.op = "update" /\ e.path = p /\ ~e.err
    IN  SelectSeq(SubSeq(slog, from + 1, Len(slog)), Ok)

\* C10: with no Remove or Clear in between, the successful Updates of a path
\* form a chain: the first returns the synthesized old snapshot, each later
\* one returns as old the very snapshot its predecessor returned as new and
\* stored, no snapshot is returned as old twice, and the stored entry is
\* always a whole snapshot of its path.
C10_SnapshotChain ==
    /\ \A p \in StorePaths :
          LET ch == Chain(p)
          IN  /\ Len(ch) >= 1 => ch[1].old = Synthesized(p)
              /\ \A n \in 2..Len(ch) : ch[n].old = ch[n - 1].new
              /\ \A n, m \in 1..Len(ch) : (n # m) => ch[n].old # ch[m].old
              /\ Len(ch) >= 1 => (p \in DOMAIN states /\ states[p] = ch[Len(ch)].new)
    /\ \A p \in DOMAIN states :
          /\ states[p].path = p
          /\ states[p].exists \/ states[p].content = Nil
          /\ states[p].exists => states[p].content \in Contents

\* Three successful Updates of one path have returned with no Remove or
\* Clear since, the file having been rewritten and then deleted in between.
C10_Witness ==
    \E p \in StorePaths :
        /\ Len(Chain(p)) = 3
        /\ Chain(p)[1].new.content # Chain(p)[2].new.content
        /\ ~Chain(p)[3].new.exists
        /\ \A c \in StoreCallers : upc[c].pc = "idle"

\* The next Update of slog[n]'s path to return after it, if there is one.
NextUpdate(n) ==
    {m \in (n + 1)..Len(slog) :
        /\ slog[m].op = "update" /\ slog[m].path = slog[n].path
        /\ \A k \in (n + 1)..(m - 1) :
              ~(slog[k].op = "update" /\ slog[k].path = slog[n].path)}

\* C11: an Update that finds no file at the path returns no error and a new
\* snapshot with exists false and no content, stores that snapshot as the
\* entry of the path, and the next Update of the path returns an old
\* snapshot with exists false.
C11_MissingFileIsATransition ==
    \A n \in 1..Len(slog) :
        (slog[n].op = "update" /\ slog[n].found = Absent) =>
            /\ ~slog[n].err
            /\ slog[n].new.exists = FALSE
            /\ slog[n].new.content = Nil
            /\ slog[n].path \in DOMAIN slog[n].after
            /\ slog[n].after[slog[n].path] = slog[n].new
            /\ \A m \in NextUpdate(n) : slog[m].old.exists = FALSE

\* A file that was stored with content was found missing by the next Update
\* of its path, and the Update after that one, with nothing dropped in
\* between, got the missing-file snapshot as old.
C11_Witness ==
    \E n \in 2..Len(slog) :
        /\ slog[n].op = "update" /\ slog[n].found = Absent
        /\ slog[n].old.exists /\ slog[n].old.content \in Contents
        /\ \E m \in NextUpdate(n) : m = n + 1 /\ slog[m].old = slog[n].new

\* C12: an Update whose read fails for another reason than a missing file
\* returns an error and leaves the whole map as it was: the entry of the
\* path, if any, is kept and is what the next Update of the path returns as
\* old.
C12_ReadErrorKeepsMap ==
    \A n \in 1..Len(slog) :
        (slog[n].op = "update" /\ slog[n].found = Unreadable) =>
            /\ slog[n].err
            /\ slog[n].after = slog[n].before
            /\ \A m \in NextUpdate(n) :
                  (\A k \in (n + 1)..(m - 1) : slog[k].op = "update") =>
                      slog[m].old = slog[n].old

\* An Update failed on an unreadable file while the path and another path
\* had stored entries, and the next Update of the path returned the kept
\* entry as old.
C12_Witness ==
    \E n \in 1..Len(slog) :
        /\ slog[n].op = "update" /\ slog[n].found = Unreadable
        /\ slog[n].path \in DOMAIN slog[n].before
        /\ DOMAIN slog[n].before = StorePaths
        /\ \E m \in NextUpdate(n) :
              slog[m].old = slog[n].before[slog[n].path] /\ slog[m].old.exists

\* The number of lines of a content: one more than its LF bytes.
LineCount(content) == 1 + Cardinality({i \in 1..Len(content) : content[i] = LF})

\* The contents of DiffLines, joined by LF.
JoinContents(ls) ==
    IF ls = <<>> THEN <<>> ELSE Join([n \in 1..Len(ls) |-> ls[n].content])

\* No line of ls holds an LF byte.
NoLFInside(ls) ==
    \A n \in 1..Len(ls) : \A i \in 1..Len(ls[n].content) : ls[n].content[i] # LF

\* C13: Compute(s, s) returns hasDiff false and nothing but Unchanged lines,
\* whatever the content of s.
C13_ComputeIdempotent ==
    (dRes # <<>> /\ dOld = dNew) =>
        /\ ~dRes[1].hasDiff
        /\ \A n \in 1..Len(dRes[1].lines) : dRes[1].lines[n].type = "Unchanged"

\* C14: the diff of an existing text of N lines against a state that does
\* not exist is a deletion (isDeleted and hasDiff, neither isNew nor
\* isBinary) of exactly N Deleted lines, the i-th numbered i on the old side,
\* with no new number, and holding the i-th line of the old text.
C14_DeletionDiff ==
    (dRes # <<>> /\ dOld.exists /\ ~isBinary(dOld.content) /\ ~dNew.exists) =>
        LET r == dRes[1]
        IN  /\ r.isDeleted /\ ~r.isNew /\ ~r.isBinary /\ r.hasDiff
            /\ Len(r.lines) = LineCount(dOld.content)
            /\ \A i \in 1..Len(r.lines) :
                  /\ r.lines[i].type = "Deleted"
                  /\ r.lines[i].oldLineNum = i
                  /\ r.lines[i].newLineNum = 0
            /\ NoLFInside(r.lines)
            /\ JoinContents(r.lines) = dOld.content

\* A text of three different lines was diffed against a missing file.
C14_Witness ==
    /\ dRes # <<>> /\ ~dNew.exists /\ dOld.exists
    /\ dOld.content = <<97, 10, 98, 10, 99>>
    /\ Len(dRes[1].lines) = 3
    /\ dRes[1].lines[3].content = <<99>> /\ dRes[1].lines[3].oldLineNum = 3

NotAdded(l) == l.type # "Added"
NotDeleted(l) == l.type # "Deleted"

\* C15: when both states exist and are text, the lines that are not Added
\* are the old lines in order, numbered 1, 2, ... on the old side; the lines
\* that are not Deleted are the new lines in order, numbered 1, 2, ... on the
\* new side; an Unchanged line carries both numbers, a Deleted line only the
\* old one and an Added line only the new one; an Added line is never
\* followed at once by a Deleted line; and old a, b, c against new a, x, c
\* gives Unchanged(a,1,1), Deleted(b,2,-), Added(x,-,2), Unchanged(c,3,3).
C15_OpcodeTranslation ==
    (/\ dRes # <<>> /\ dOld.exists /\ dNew.exists
     /\ ~isBinary(dOld.content) /\ ~isBinary(dNew.content)) =>
        LET L == dRes[1].lines
            oldSide == SelectSeq(L, NotAdded)
            newSide == SelectSeq(L, NotDeleted)
        IN  /\ Len(oldSide) = LineCount(dOld.content)
            /\ \A n \in 1..Len(oldSide) : oldSide[n].oldLineNum = n
            /\ NoLFInside(L)
            /\ JoinContents(oldSide) = dOld.content
            /\ Len(newSide) = LineCount(dNew.content)
            /\ \A n \in 1..Len(newSide) : newSide[n].newLineNum = n
            /\ JoinContents(newSide) = dNew.content
            /\ \A n \in 1..Len(L) :
                  /\ L[n].type \in {"Unchanged", "Deleted", "Added"}
                  /\ L[n].type = "Deleted" => L[n].newLineNum = 0
                  /\ L[n].type = "Added" => L[n].oldLineNum = 0
            /\ \A n \in 1..(Len(L) - 1) :
                  ~(L[n].type = "Added" /\ L[n + 1].type = "Deleted")
            /\ (dOld.content = <<97, 10, 98, 10, 99>> /\ dNew.content = <<97, 10, 120, 10, 99>>)
                  => L = <<DiffLine("Unchanged", 1, 1, <<97>>),
                           DiffLine("Deleted", 2, 0, <<98>>),
                           DiffLine("Added", 0, 2, <<120>>),
                           DiffLine("Unchanged", 3, 3, <<99>>)>>

\* Old a, b, c was diffed against new a, x, c.
C15_Witness ==
    /\ dRes # <<>> /\ dOld.exists /\ dNew.exists
    /\ dOld.content = <<97, 10, 98, 10, 99>>
    /\ dNew.content = <<97, 10, 120, 10, 99>>
    /\ Len(dRes[1].lines) = 4

\* C16: a result with isBinary true has no lines.
C16_BinaryHasNoLines ==
    (dRes # <<>> /\ dRes[1].isBinary) => dRes[1].lines = <<>>

\* A file of two lines, one of them with a null byte, was deleted.
C16_Witness ==
    /\ dRes # <<>> /\ dRes[1].isBinary /\ dRes[1].isDeleted
    /\ dOld.content = <<97, 0, 10, 98>>

\* C17: isNew is true exactly when the new state exists and the old one does
\* not, isDeleted exactly when the old state exists and the new one does
\* not; they are never both true, and both are false when both states exist
\* or neither does.
C17_NewDeletedClassification ==
    dRes # <<>> =>
        /\ dRes[1].isNew <=> (dNew.exists /\ ~dOld.exists)
        /\ dRes[1].isDeleted <=> (dOld.exists /\ ~dNew.exists)
        /\ ~(dRes[1].isNew /\ dRes[1].isDeleted)
        /\ (dOld.exists <=> dNew.exists) => (~dRes[1].isNew /\ ~dRes[1].isDeleted)

\* Two existing states with different texts were diffed: neither new nor
\* deleted.
C17_Witness ==
    /\ dRes # <<>> /\ dOld.exists /\ dNew.exists
    /\ dOld.content = <<97>> /\ dNew.content = <<120>>
    /\ ~dRes[1].isNew /\ ~dRes[1].isDeleted

\* C18: in every case hasDiff is true exactly when the unified text of the
\* result is not empty.
C18_HasDiffIffUnified ==
    dRes # <<>> => (dRes[1].hasDiff <=> dRes[1].unified # <<>>)

\* A file was created with two lines of text: hasDiff and the creation
\* header as unified text.
C18_Witness ==
    /\ dRes # <<>> /\ ~dOld.exists /\ dNew.exists
    /\ dNew.content = <<97, 10, 120>>
    /\ dRes[1].hasDiff /\ Len(dRes[1].unified) = 1

\* The sample of a content: its first min(len, CheckSize) bytes.
SampleLen(content) == Min(Len(content), CheckSize)

\* C19: a content with a null byte among its first min(len, 8192) bytes is
\* classified binary, whatever its other bytes are.
C19_NullByteIsBinary ==
    (bOut # <<>> /\ \E i \in 1..SampleLen(bIn) : bIn[i] = 0) => bOut[1] = TRUE

\* A content longer than the sample whose only null byte is the last byte of
\* the sample, all other bytes being printable, was classified binary.
C19_Witness ==
    /\ bOut = <<TRUE>>
    /\ Len(bIn) > CheckSize
    /\ bIn[CheckSize] = 0
    /\ \A i \in 1..Len(bIn) : i # CheckSize => bIn[i] = 97

\* The bytes the ratio rule counts: below 0x20 other than tab, LF and CR, or
\* from 127 to 255.
CountedAsNonPrintable(b) ==
    \/ b < 32 /\ b \notin {9, 10, 13}
    \/ b >= 127 /\ b <= 255

\* C20: a content whose sample has no null byte is classified binary exactly
\* when 10 times the number of counted bytes of the sample exceeds 3 times
\* the length of the sample; bytes after the sample play no part.
C20_RatioRule ==
    (bOut # <<>> /\ \A i \in 1..SampleLen(bIn) : bIn[i] # 0) =>
        (bOut[1] <=>
            10 * Cardinality({i \in 1..SampleLen(bIn) : CountedAsNonPrintable(bIn[i])})
                > 3 * SampleLen(bIn))

\* Timer i belongs to an Add that completed before Stop was called, and Stop
\* has returned.
StoppedBefore(i) == spc.pc = "done" /\ i <= spc.seen

\* C21: when Stop returns the timer map is empty, and no callback given to
\* an Add that completed before Stop is invoked after Stop has returned, also
\* when its timer had expired just before Stop took the lock.
C21_StopCancelsAll ==
    [][/\ (spc.pc = "idle" /\ spc'.pc = "done") => timers' = EmptyMap
       /\ \A i \in 1..Len(tm) :
             (StoppedBefore(i) /\ tm[i].st = "cb") => tm'[i].st = "cb"]_vars

\* The timers of key k whose callback has not yet started: armed, or expired
\* with the timer function still before its delete of the entry.
Pending(k) ==
    {i \in 1..Len(tm) : tm[i].key = k /\ tm[i].st \in {"armed", "fired"}}

\* C22: whenever the debouncer lock is free (and Stop has not emptied the
\* map), the map holds for each key exactly the timer of the most recent Add
\* whose callback has not yet started, and no entry for a key without a
\* pending callback: a firing timer removes only its own entry.
C22_TimerMapBookkeeping ==
    (dmu = Free /\ spc.pc = "idle") =>
        \A k \in Keys :
            IF Pending(k) = {}
            THEN k \notin DOMAIN timers
            ELSE /\ k \in DOMAIN timers
                 /\ timers[k] \in Pending(k)
                 /\ \A i \in Pending(k) : i <= timers[k]

\* C23: the debouncer lock is held only inside the map sections of Add and
\* of the timer function, never during a delay or across callback(); whoever
\* holds it can release it without waiting for anything, so concurrent Adds
\* and a callback about to run never block each other for longer.
C23_LockOnlyForMap ==
    /\ \A i \in 1..Len(tm) : dmu = <<"timer", i>> => tm[i].st = "locked"
    /\ \A c \in Callers : dmu = <<"add", c>> => apc[c].pc = "body"
    /\ dmu # Free =>
          \/ \E c \in Callers : dmu = <<"add", c>> /\ ENABLED AddBody(c)
          \/ \E i \in 1..Len(tm) : dmu = <<"timer", i>> /\ ENABLED FnDelete(i)

\* A callback is about to be invoked while an Add for another key is inside
\* its map section.
C23_Witness ==
    \E i \in 1..Len(tm), c \in Callers :
        /\ tm[i].st = "cb"
        /\ dmu = <<"add", c>>
        /\ apc[c].key # tm[i].key

\* C24: the store mutex is never held while an Update performs its file
\* read, so during the read of one path a Remove of another path, a Clear,
\* or the Update of another caller can take the mutex.
C24_NoLockAcrossRead ==
    \A c \in StoreCallers :
        upc[c].pc = "read" =>
            /\ smu = Free
            /\ nStoreOps < MaxStoreOps =>
                  /\ \A p \in StorePaths \ {upc[c].path} : ENABLED RemoveCall(p)
                  /\ ENABLED ClearCall
                  /\ \A o \in StoreCallers \ {c} :
                        \A p \in StorePaths \ {upc[c].path} :
                            upc[o].pc = "idle" => ENABLED UpdateLock(o, p)

\* Walk n completes fw.watcher.Add(path) successfully in this step.
Subscribes(n) ==
    /\ n <= Len(walks)
    /\ walks[n].pc = "add"
    /\ walks'[n].pc = "store"

\* C25: fw.watchedDirs only grows, a path enters it only by the walk whose
\* fw.watcher.Add of that path has succeeded, and no walk subscribes a
\* directory that is already subscribed, whatever the interleaving of the
\* walks.
C25_NoDuplicateSubscription ==
    [][/\ watchedDirs \subseteq watchedDirs'
       /\ \A p \in watchedDirs' \ watchedDirs :
             \E n \in 1..Len(walks) : walks[n].pc = "store" /\ walks[n].cur = p
       /\ \A n \in 1..Len(walks) :
             Subscribes(n) => walks[n].cur \notin osWatches]_vars

\* C26: with recursive = false the root is the only path ever subscribed,
\* nothing is recorded in fw.watchedDirs and no subtree walk is ever
\* started, whatever directories are created below the root.
C26_NonRecursiveRootOnly ==
    /\ osWatches \subseteq {watchPath}
    /\ watchedDirs = {}
    /\ walks = <<>>

\* The watch loop has received the creation of a directory that is not
\* excluded, and forwards it to the debouncer as an ordinary event.
C26_Witness ==
    /\ ~recursive
    /\ wpc.pc = "add_body"
    /\ wpc.ev.op = "create"
    /\ wpc.ev.path \in fsDirs
    /\ ~Skipped(wpc.ev.path)

\* The normalized name of a raw operation with a single bit set.
Normalized(op) ==
    CASE op = Create -> "create"
      [] op = Write  -> "write"
      [] op = Remove -> "remove"
      [] op = Rename -> "rename"
      [] op = Chmod  -> "chmod"

\* The watch loop holds a received notification whose Add is not yet done.
InHand == IF wpc.pc \in {"add_lock", "add_body"} THEN 1 ELSE 0

\* C27: every raw notification the watch loop receives causes exactly one
\* Debouncer.Add, keyed by the notification's path, with the Event of that
\* path and the normalized operation; the Add needs only the debouncer lock,
\* never the end of a subtree walk.
C27_OneAddPerNotification ==
    /\ [](Len(tm) + InHand = nNotifs - Len(notifs))
    /\ []((wpc.pc = "add_lock" /\ dmu = Free) => ENABLED WatchAddLock)
    /\ [](wpc.pc = "add_body" => ENABLED WatchAddBody)
    /\ [][/\ Len(notifs') < Len(notifs) =>
                /\ wpc'.pc = "add_lock"
                /\ wpc'.ev.path = Head(notifs).name
                /\ wpc'.ev.op = Normalized(Head(notifs).op)
          /\ (InHand = 1 /\ wpc'.pc # "select") => wpc'.ev = wpc.ev
          /\ Len(tm') # Len(tm) =>
                /\ wpc.pc = "add_body"
                /\ Len(tm') = Len(tm) + 1
                /\ tm'[Len(tm')].key = wpc.ev.path
                /\ tm'[Len(tm')].cb = wpc.ev]_vars

\* The Add for the creation of a directory is done while the walk started
\* for that directory has not finished.
C27_Witness ==
    \E i \in 1..Len(tm), n \in 1..Len(walks) :
        /\ tm[i].cb.op = "create"
        /\ walks[n].root = tm[i].key
        /\ walks[n].pc # "done"

\* The recognized operations in the order the spec gives them.
OpOrder ==
    <<[bit |-> Create, name |-> "create"], [bit |-> Write, name |-> "write"],
      [bit |-> Remove, name |-> "remove"], [bit |-> Rename, name |-> "rename"],
      [bit |-> Chmod, name |-> "chmod"]>>

\* The positions in OpOrder of the recognized bits set in op.
SetBits(op) == {j \in 1..Len(OpOrder) : (op \div OpOrder[j].bit) % 2 = 1}

\* C28: the normalized operation is always one of create, write, remove,
\* rename, chmod, unknown; it is unknown when none of the five recognized
\* bits is set, and otherwise the first set one in that order.
C28_OpNormalization ==
    opOut # <<>> =>
        /\ opOut[1] \in {OpOrder[j].name : j \in 1..Len(OpOrder)} \cup {"unknown"}
        /\ SetBits(opIn) = {} => opOut[1] = "unknown"
        /\ \A j \in SetBits(opIn) :
              (\A k \in SetBits(opIn) : j <= k) => opOut[1] = OpOrder[j].name

\* Write, chmod and an unrecognized bit are set: the result is write.
C28_Witness ==
    /\ opIn = Write + Chmod + 2 * Chmod
    /\ opOut = <<"write">>

\* Walk n stands before a directory that exists and cannot be read.
MeetsDenied(n) ==
    /\ walks[n].pc = "lstat"
    /\ Head(walks[n].todo) \in fsDirs \cap denied

\* C29: a walk that meets a permission error skips that directory, goes on
\* with the remaining ones and puts nothing on the error channel; a walk
\* that ends with another error hands it to sendError, which buffers it or
\* drops it when the channel is full; nothing else reaches the error
\* channel, and the watch loop keeps running.
C29_WalkErrorPolicy ==
    /\ [](wpc.pc # "exit" /\ osWatches \cap denied = {})
    /\ [][/\ \A n \in 1..Len(walks) :
                /\ (MeetsDenied(n) /\ walks'[n] # walks[n]) =>
                      /\ walks'[n].todo = Tail(walks[n].todo)
                      /\ walks'[n].pc =
                            IF Tail(walks[n].todo) = <<>> THEN "done" ELSE "lstat"
                      /\ errors' = errors /\ dropped' = dropped
                /\ (walks[n].pc = "err_rlock" /\ walks'[n] # walks[n]) =>
                      walks'[n].pc = "err_select"
                /\ (walks[n].pc = "err_select" /\ walks'[n] # walks[n]) =>
                      /\ walks'[n].pc = "done"
                      /\ wpc' = wpc
                      /\ IF Len(errors.buf) < ErrCap
                         THEN /\ errors'.buf = Append(errors.buf, "walk")
                              /\ dropped' = dropped
                         ELSE /\ errors' = errors
                              /\ Len(dropped') = Len(dropped) + 1
          /\ errors' # errors =>
                \E n \in 1..Len(walks) : walks[n].pc = "err_select"]_vars

\* Two dynamic walks of the same unreadable directory have ended: one had
\* lost the directory and its error was dropped on the full channel, the
\* other skipped the directory without subscribing it or reporting.
C29_Witness ==
    /\ Len(walks) = 3
    /\ \A n \in 1..3 : walks[n].pc = "done"
    /\ walks[2].root = walks[3].root
    /\ walks[2].root \in fsDirs \cap denied
    /\ walks[2].root \notin watchedDirs
    /\ Len(errors.buf) = ErrCap
    /\ Len(dropped) = 1

\* C30: when New fails because the path cannot be resolved or the OS refuses
\* the subscription of the root, it returns the error and no handle, the OS
\* watcher has been closed, no path is subscribed, no walk was started, and
\* the watch goroutine, if it was started, terminates.
C30_FailedNewLeavesNothing ==
    /\ []((npc.pc = "failed" /\ npc.err \in {"abs", "add"}) =>
            /\ osClosed >= 1
            /\ walks = <<>>
            /\ osWatches = {} /\ watchedDirs = {}
            /\ tm = <<>>
            /\ wpc.pc \in {"off", "select", "exit"}
            /\ npc.err = "abs" => wpc.pc = "off")
    /\ (npc.pc = "failed") ~> (wpc.pc \in {"off", "exit"})

\* The OS refused the root after the watch goroutine was started, and the
\* goroutine has returned.
C30_Witness ==
    /\ npc = [pc |-> "failed", err |-> "add"]
    /\ osClosed = 1
    /\ wpc.pc = "exit"

\* C31: the diff of a state that does not exist against an existing text of
\* N lines is a creation (isNew and hasDiff, neither isDeleted nor isBinary)
\* of exactly N Added lines, the j-th numbered j on the new side, with no old
\* number, and holding the j-th line of the new text, whatever content the
\* old state carries.
C31_CreationDiff ==
    (dRes # <<>> /\ ~dOld.exists /\ dNew.exists /\ ~isBinary(dNew.content)) =>
        LET r == dRes[1]
        IN  /\ r.isNew /\ ~r.isDeleted /\ ~r.isBinary /\ r.hasDiff
            /\ Len(r.lines) = LineCount(dNew.content)
            /\ \A j \in 1..Len(r.lines) :
                  /\ r.lines[j].type = "Added"
                  /\ r.lines[j].newLineNum = j
                  /\ r.lines[j].oldLineNum = 0
            /\ NoLFInside(r.lines)
            /\ JoinContents(r.lines) = dNew.content

\* A text of three different lines was diffed against a missing old state
\* that still carries a content.
C31_Witness ==
    /\ dRes # <<>> /\ ~dOld.exists /\ dOld.content = <<97>>
    /\ dNew.exists /\ dNew.content = <<97, 10, 120, 10, 99>>
    /\ Len(dRes[1].lines) = 3
    /\ dRes[1].lines[2].content = <<120>> /\ dRes[1].lines[2].newLineNum = 2

\* C32: when both states exist and one of the contents is binary, the
\* result is binary with no lines, hasDiff, neither isNew nor isDeleted, and
\* a unified text that names the transition: binary modified, text to
\* binary, or binary to text.
C32_BinaryModification ==
    (/\ dRes # <<>> /\ dOld.exists /\ dNew.exists
     /\ (isBinary(dOld.content) \/ isBinary(dNew.content))) =>
        LET r == dRes[1]
            ob == isBinary(dOld.content)
            nb == isBinary(dNew.content)
        IN  /\ r.isBinary /\ r.hasDiff /\ ~r.isNew /\ ~r.isDeleted
            /\ r.lines = <<>>
            /\ Len(r.unified) = 1
            /\ r.unified[1].path = dNew.path
            /\ (ob /\ nb) => r.unified[1].fmt = "Binary file %s modified\n"
            /\ (~ob /\ nb) =>
                  r.unified[1].fmt = "File %s changed from text to binary\n"
            /\ (ob /\ ~nb) =>
                  r.unified[1].fmt = "File %s changed from binary to text\n"

\* Both contents are binary and the result says binary modified.
C32_Witness ==
    /\ dRes # <<>> /\ dOld.exists /\ dNew.exists
    /\ dOld.content = <<0>> /\ dNew.content = <<1>>
    /\ dRes[1].isBinary
    /\ dRes[1].unified[1].fmt = "Binary file %s modified\n"

IsOldSide(l) == l.type \in {"Unchanged", "Deleted"}
IsNewSide(l) == l.type \in {"Unchanged", "Added"}

\* C34: when both states exist and are text, the Unchanged and Deleted lines
\* in output order are the old line sequence with old numbers 1..|old|, the
\* Unchanged and Added lines are the new line sequence with new numbers
\* 1..|new|, and an Unchanged line holds the line found at its old number in
\* the old text and at its new number in the new text.
C34_Reconstruction ==
    (/\ dRes # <<>> /\ dOld.exists /\ dNew.exists
     /\ ~isBinary(dOld.content) /\ ~isBinary(dNew.content)) =>
        LET L == dRes[1].lines
            old == Split(dOld.content)
            new == Split(dNew.content)
            oldSide == SelectSeq(L, IsOldSide)
            newSide == SelectSeq(L, IsNewSide)
        IN  /\ [n \in 1..Len(oldSide) |-> oldSide[n].content] = old
            /\ [n \in 1..Len(oldSide) |-> oldSide[n].oldLineNum] =
                  [n \in 1..Len(old) |-> n]
            /\ [n \in 1..Len(newSide) |-> newSide[n].content] = new
            /\ [n \in 1..Len(newSide) |-> newSide[n].newLineNum] =
                  [n \in 1..Len(new) |-> n]
            /\ \A n \in 1..Len(L) :
                  L[n].type = "Unchanged" =>
                      /\ L[n].oldLineNum \in 1..Len(old)
                      /\ L[n].newLineNum \in 1..Len(new)
                      /\ L[n].content = old[L[n].oldLineNum]
                      /\ L[n].content = new[L[n].newLineNum]

\* Old a, b, c was diffed against new c, a: two lines are deleted around the
\* one kept, and one is added.
C34_Witness ==
    /\ dRes # <<>> /\ dOld.exists /\ dNew.exists
    /\ dOld.content = <<97, 10, 98, 10, 99>>
    /\ dNew.content = <<99, 10, 97>>
    /\ \E n \in 1..Len(dRes[1].lines) : dRes[1].lines[n].type = "Unchanged"
    /\ \E n \in 1..Len(dRes[1].lines) : dRes[1].lines[n].type = "Added"
    /\ Cardinality({n \in 1..Len(dRes[1].lines) :
                       dRes[1].lines[n].type = "Deleted"}) = 2

IsChange(l) == l.type \in {"Added", "Deleted"}

\* C35: when both states exist and are text, contents that differ give
\* hasDiff and at least one Added or Deleted line, and a result without
\* hasDiff has nothing but Unchanged lines: the unified text and the lines
\* agree on whether there is a change.
C35_NoMissedChange ==
    (/\ dRes # <<>> /\ dOld.exists /\ dNew.exists
     /\ ~isBinary(dOld.content) /\ ~isBinary(dNew.content)) =>
        LET r == dRes[1]
        IN  /\ dOld.content # dNew.content =>
                  /\ r.hasDiff
                  /\ \E n \in 1..Len(r.lines) : IsChange(r.lines[n])
            /\ ~r.hasDiff =>
                  \A n \in 1..Len(r.lines) : r.lines[n].type = "Unchanged"
            /\ r.hasDiff <=> \E n \in 1..Len(r.lines) : IsChange(r.lines[n])

\* Two texts that differ only by a final LF were diffed.
C35_Witness ==
    /\ dRes # <<>> /\ dOld.exists /\ dNew.exists
    /\ dOld.content = <<97>> /\ dNew.content = <<97, 10>>
    /\ dRes[1].hasDiff
    /\ dRes[1].lines[2].type = "Added"

\* The number of LF bytes of a content.
LFCount(content) == Cardinality({i \in 1..Len(content) : content[i] = LF})

\* C36: a text content with k LF bytes gives k+1 lines on deletion (Deleted)
\* and on creation (Added); a content of zero bytes is text and gives one
\* line with empty content; a content ending in LF gives a last line that is
\* empty.
C36_LineSplitting ==
    LET Holds(st, kind, r) ==
            /\ ~isBinary(<<>>)
            /\ ~isBinary(st.content) =>
                  /\ Len(r.lines) = LFCount(st.content) + 1
                  /\ \A n \in 1..Len(r.lines) : r.lines[n].type = kind
                  /\ st.content = <<>> =>
                        (~r.isBinary /\ Len(r.lines) = 1 /\ r.lines[1].content = <<>>)
                  /\ (st.content # <<>> /\ st.content[Len(st.content)] = LF) =>
                        r.lines[Len(r.lines)].content = <<>>
    IN  dRes # <<>> =>
            /\ (dOld.exists /\ ~dNew.exists) => Holds(dOld, "Deleted", dRes[1])
            /\ (~dOld.exists /\ dNew.exists) => Holds(dNew, "Added", dRes[1])

\* A file holding the two bytes a, LF was created: two lines, the second
\* one empty.
C36_Witness ==
    /\ dRes # <<>> /\ ~dOld.exists /\ dNew.exists
    /\ dNew.content = <<97, 10>>
    /\ Len(dRes[1].lines) = 2
    /\ dRes[1].lines[2].content = <<>>

\* The channel buffer after a step: as it was, or without its first value.
OnlyRead(before, after) ==
    \E k \in 0..1 : k <= Len(before) /\ after = SubSeq(before, k + 1, Len(before))

\* C37: once Close has returned no Event and no error is added to the
\* channels: no goroutine stands at a select of sendEvent or sendError, the
\* log of delivered events stays as it is, and each buffer changes only by
\* the consumer taking its first value; a value buffered before Close can
\* still be read, and both channels are closed once.
C37_NothingAfterClose ==
    /\ [](osClosed > 0 =>
            /\ events.closes = 1 /\ errors.closes = 1
            /\ \A i \in 1..Len(tm) : tm[i].st # "select"
            /\ \A g \in ErrSenders : ErrPc(g) # "err_select"
            /\ events.buf # <<>> => ENABLED ConsumeEvent
            /\ errors.buf # <<>> => ENABLED ConsumeError)
    /\ [][osClosed > 0 =>
            /\ delivered' = delivered
            /\ OnlyRead(events.buf, events'.buf)
            /\ OnlyRead(errors.buf, errors'.buf)
            /\ events'.closes = events.closes
            /\ errors'.closes = errors.closes]_vars

\* Close has returned with a delivered event still buffered in the event
\* channel, and the timer created last, pending at Close, was stopped: its
\* event is neither delivered nor dropped.
C37_Witness ==
    /\ osClosed = 1
    /\ events.buf # <<>>
    /\ Len(tm) = 2
    /\ tm[2].st = "stopped"
    /\ \A n \in 1..Len(delivered) : delivered[n].ev # tm[2].cb
    /\ dropped = <<>>

\* A timer function that has started and not returned yet.
Started(i) ==
    i <= Len(tm) /\ tm[i].st \in {"fired", "locked", "cb", "select"}

\* C38: shutdown cannot deadlock.  Whoever holds d.mu can release it without
\* taking fw.mu, and holds no lock of fw.mu; a Close that has taken fw.mu
\* returns; the watch goroutine inside Add or sendError, a started timer
\* function and a walk inside sendError each run to the end of their step;
\* both locks are free again and again; after Close the watch loop exits.
C38_ShutdownTerminates ==
    /\ [](/\ \A i \in 1..Len(tm) :
                dmu = <<"timer", i>> =>
                    /\ tm[i].st = "locked" /\ ENABLED WFnDelete(i)
                    /\ <<"timer", i>> \notin fmuR
          /\ dmu = <<"watch", 0>> =>
                /\ wpc.pc = "add_body" /\ ENABLED WatchAddBody
                /\ <<"watch", 0>> \notin fmuR
          /\ dmu \in {Free, <<"watch", 0>>} \cup {<<"timer", i>> : i \in 1..Len(tm)})
    /\ \A c \in Closers : (cpc[c] # "idle") ~> (cpc[c] = "idle" /\ osClosed = 1)
    /\ (wpc.pc \in {"add_lock", "add_body", "err_rlock", "err_select"})
          ~> (wpc.pc \in {"select", "exit"})
    /\ \A i \in 1..MaxNotifs : Started(i) ~> (i <= Len(tm) /\ tm[i].st = "done")
    /\ (walks[1].pc \in {"err_rlock", "err_select"}) ~> (walks[1].pc = "done")
    /\ []<>(LockFree /\ dmu = Free)
    /\ (osClosed > 0) ~> (wpc.pc = "exit")

\* Close stands before Debouncer.Stop holding fw.mu while a timer function
\* holds d.mu, the watch goroutine waits for d.mu inside Add, and the walk
\* goroutine waits for fw.mu inside sendError.
C38_Witness ==
    /\ \E c \in Closers : cpc[c] = "stop" /\ fmuW = <<"close", c>>
    /\ \E i \in 1..Len(tm) : dmu = <<"timer", i>>
    /\ wpc.pc = "add_lock"
    /\ walks[1].pc = "err_rlock"

\* C33: when handleFileEvent runs for a non-remove event and os.Stat finds
\* a regular file of more than 1048576 bytes, neither Update nor Compute is
\* called (no snapshot is allocated, the store is as it was for every path,
\* no Compute is recorded) and the current diff becomes a placeholder with
\* hasDiff, not binary and without lines; when os.Stat finds a directory,
\* neither is called either and the current diff stays.
C33_SizeGating ==
    [][\A p \in UiPaths, info \in StatResults, found \in FileStates :
          (/\ TickVisit(p, info, found)
           /\ pending[p].age >= ProcessThreshold
           /\ pending[p].event.op # "remove") =>
              LET untouched ==
                      /\ states' = states /\ nAlloc' = nAlloc /\ tracked' = tracked
                      /\ dOld' = dOld /\ dNew' = dNew /\ dRes' = dRes
              IN  /\ (info.kind = "file" /\ info.size > 1048576) =>
                        /\ untouched
                        /\ Len(curDiff') = 1
                        /\ curDiff'[1].path = p
                        /\ curDiff'[1].hasDiff /\ ~curDiff'[1].isBinary
                        /\ curDiff'[1].lines = <<>>
                  /\ info.kind = "dir" => untouched /\ curDiff' = curDiff]_vars

\* A snapshot of a path was taken for a first event; a second event for the
\* same path met a file too large: the placeholder is shown and the store
\* holds the one snapshot.
C33_Witness ==
    /\ Len(ulog) = 2
    /\ nAlloc = 1
    /\ Len(curDiff) = 1
    /\ curDiff[1].hasDiff /\ curDiff[1].lines = <<>> /\ curDiff[1].unified = <<>>
    /\ uerr = ErrTooLarge(maxDiffSize + 1)
    /\ DOMAIN states = {curDiff[1].path}
    /\ states[curDiff[1].path].id = 1

\* The event with ordinal k has been handled.
Processed(k) == \E i \in 1..Len(ulog) : ulog[i].seq = k

\* C39: an event is not processed on receipt: it becomes the pending entry
\* of its path with a fresh timestamp, and store, diff and log stay; an
\* entry is processed only inside a tick, when its age is at least 200 ms,
\* it is the event received last for its path, and it leaves the pending
\* map in the same step; the store changes only then; no event is processed
\* twice; and a pending event is processed or replaced in the end.
C39_Coalescing ==
    /\ [][urecv'.n # urecv.n =>
             /\ ulog' = ulog /\ curDiff' = curDiff
             /\ states' = states /\ nAlloc' = nAlloc /\ dRes' = dRes
             /\ \E p \in UiPaths :
                   /\ p \in DOMAIN pending'
                   /\ pending'[p].event.seq = urecv'.n /\ pending'[p].age = 0
                   /\ \A q \in DOMAIN pending \ {p} :
                         q \in DOMAIN pending' /\ pending'[q] = pending[q]]_vars
    /\ [][ulog' # ulog =>
             LET e == ulog'[Len(ulog')]
             IN  /\ ulog' = Append(ulog, e)
                 /\ tick.pc = "range"
                 /\ e.age >= 200
                 /\ e.seq = e.latest
                 /\ \E p \in DOMAIN pending :
                       /\ pending[p].event.seq = e.seq
                       /\ urecv.last[p] = e.seq
                       /\ DOMAIN pending' = DOMAIN pending \ {p}]_vars
    /\ [][(states' # states \/ nAlloc' # nAlloc \/ dRes' # dRes \/ curDiff' # curDiff)
             => ulog' # ulog]_vars
    /\ [](\A i, j \in 1..Len(ulog) : ulog[i].seq = ulog[j].seq => i = j)
    /\ \A k \in 1..MaxEvents, p \in UiPaths :
          (p \in DOMAIN pending /\ pending[p].event.seq = k)
              ~> (Processed(k) \/ (p \in DOMAIN pending /\ pending[p].event.seq > k))

\* Two events were received for one path; the second replaced the first,
\* which was never processed, and was processed by a later tick.
C39_Witness ==
    /\ urecv.n = 2
    /\ Len(ulog) = 1 /\ ulog[1].seq = 2
    /\ DOMAIN urecv.last = {"a"}
    /\ pending = EmptyMap
    /\ nAlloc = 1
    /\ tick.pc = "idle"

====
